---- MODULE Spec2Model ----
(***************************************************************************)
(* A model of the transaction engine of idb-entity.                        *)
(*                                                                         *)
(*   SpecRunner  the TransactionRunner (es2015/TransactionRunner.js and    *)
(*               its later revision with the keep-alive error handler):    *)
(*               one IndexedDB read-write transaction kept alive by a      *)
(*               probe read, the operation queue, the idle policy.         *)
(*                                                                         *)
(*   SpecTx      the Transaction (es2015/Transaction.js) together with     *)
(*               the persistence context of its EntityManager: the         *)
(*               operations it queues, commit's write-back of the dirty    *)
(*               entities, abort's revert, the completion callback.        *)
(*                                                                         *)
(* The IndexedDB transaction is the environment.  Its requests are served  *)
(* in the order they were placed; it completes by itself as soon as it has *)
(* no request left; aborting it fails what is pending.                     *)
(***************************************************************************)
EXTENDS Integers, Sequences, FiniteSets, TLC

\* ------------------------------------------------------------------ bounds

\* Operations the caller queues on one runner.
MaxOps == 3

\* Last tick of the clock (Date.now() starts at 1).
MaxTime == 4

\* Transactions started, public calls made, entity edits, persist() calls.
MaxTx == 2

MaxCalls == 4

MaxEdits == 1

MaxPersists == 1

\* ------------------------------------------------------------- vocabulary

\* A field that holds null (or any falsy timestamp).
NULL == 0

\* What a queued operation does when it is invoked with the transaction:
\*   io     places one request on an object store;
\*   queue  queues a follow-up operation on the runner, synchronously;
\*   throw  throws.
OpKinds == {"io", "queue", "throw"}

\* The idle policies ({ttl, warningDelay}) the runner is constructed with.
IdleOptions ==
  { [ttl |-> 2, warningDelay |-> 1],
    [ttl |-> 1, warningDelay |-> 2],
    [ttl |-> 1, warningDelay |-> 1],
    [ttl |-> 3, warningDelay |-> 0] }

\* The two revisions of TransactionRunner in the repository: the later one
\* chains a catch() handler after the keep-alive probe's then().
Revisions == {"es2015", "catch"}

VARIABLES
  runner,     \* the TransactionRunner's private fields
  idbTx,      \* the indexed-db.es6 transaction the runner owns
  log,        \* history: what was accepted, refused, invoked, notified
  now,        \* Date.now()
  revision    \* which revision of TransactionRunner runs

runnerVars == <<runner, idbTx, log, now, revision>>

VARIABLES
  em,         \* the EntityManager: activeTransaction, the persistence context
  txn,        \* the Transaction the entity manager started last
  heap,       \* the entity objects the application holds, by identity
  db,         \* the read-write IndexedDB transaction of txn
  storage,    \* the object store as a reader outside the transaction sees it
  hist        \* history: the calls made and what commit() found

txVars == <<em, txn, heap, db, storage, hist>>

VARIABLES
  mem,        \* the values clone() and equals() are applied to, by identity
  ser         \* the primary keys serializeKey() is applied to

valueVars == <<mem, ser>>

vars == <<runnerVars, txVars, valueVars>>

\* ---------------------------------------------------------------- helpers

Range(s) == { s[i] : i \in DOMAIN s }

Count(s, x) == Cardinality({ i \in DOMAIN s : s[i] = x })

Reverse(s) == [ i \in DOMAIN s |-> s[Len(s) + 1 - i] ]

IsProbe(req) == req = "probe"

\* The runner, its transaction and the history as one value, threaded
\* through a handler; err is set while an exception propagates.
\* strict says what abort() of a transaction that has finished does: it
\* throws (as IDBTransaction.abort() does) or it does nothing.
World == [r |-> runner, t |-> idbTx, g |-> log, err |-> FALSE, strict |-> TRUE]

Raise(w) == [w EXCEPT !.err = TRUE]

Caught(w) == [w EXCEPT !.err = FALSE]

\* ------------------------------------------------- the IndexedDB transaction

\* IDBTransaction.abort(): the transaction ends aborted and its pending
\* requests fail; the probe stays listed until its callback has run.
txAbort(t) ==
  [t EXCEPT !.state = "aborted", !.requests = SelectSeq(@, IsProbe)]

\* transaction.abort() as a call: on a transaction that has finished it
\* throws, or leaves it as it is.
txAbortCall(w) ==
  IF w.t.state = "active" THEN [w EXCEPT !.t = txAbort(@)]
  ELSE IF w.strict THEN Raise(w)
  ELSE w

\* IDBObjectStore.get/add/...: places a request; throws on a transaction
\* that is no longer active.
txRequest(w, req) ==
  IF w.t.state = "active"
    THEN [w EXCEPT !.t.requests = Append(@, req)]
    ELSE Raise(w)

\* ------------------------------------------------------ TransactionRunner

\* queueOperation() without its "no longer active" check.
queueOperation_noActiveCheck(w, op) ==
  IF w.r.aborted THEN Raise(w)
  ELSE [w EXCEPT !.r.queuedOperations = Append(@, op)]

queueOperation(w, op) ==
  IF w.r.aborted THEN Raise(w)
  ELSE IF ~w.r.active THEN Raise(w)
  ELSE [w EXCEPT !.r.queuedOperations = Append(@, op)]

\* A queueOperation() call with its outcome written to the history.
Queue(w, op) ==
  LET w1 == queueOperation(w, op) IN
  IF w1.err
    THEN [w1 EXCEPT !.g.refused = @ \cup {op.id}]
    ELSE [w1 EXCEPT !.g.accepted = Append(@, op.id)]

\* abort() that forgets to clear the active flag.
abort_staysActive(w) ==
  IF w.r.aborted THEN Raise(w)
  ELSE IF ~w.r.active THEN Raise(w)
  ELSE LET w1 == txAbortCall(
                   [w EXCEPT !.r.aborted = TRUE,
                             !.g.finishes = @ + 1,
                             !.g.atAbort = { w.r.queuedOperations[i].id :
                                         i \in DOMAIN w.r.queuedOperations }])
       IN IF w1.err THEN w1 ELSE [w1 EXCEPT !.r.abortPromise = "pending"]

abort(w) ==
  IF w.r.aborted THEN Raise(w)
  ELSE IF ~w.r.active THEN Raise(w)
  ELSE LET w1 == txAbortCall(
                   [w EXCEPT !.r.aborted = TRUE,
                             !.r.active = FALSE,
                             !.g.finishes = @ + 1,
                             !.g.atAbort = { w.r.queuedOperations[i].id :
                                         i \in DOMAIN w.r.queuedOperations }])
       IN IF w1.err THEN w1 ELSE [w1 EXCEPT !.r.abortPromise = "pending"]

\* completionPromise.then(() => { throw new Error(...) }) of abort(): the
\* promise abort() returned rejects, with the transaction's AbortError or
\* with the callback's Error if the transaction completed.
abortThen(w, completion) ==
  [w EXCEPT !.r.abortPromise = "rejected",
            !.g.abortError =
               IF completion = "complete" THEN "Error" ELSE "AbortError"]

\* The follow-up operation an operation of kind "queue" queues.
Child(op) == [id |-> op.id + MaxOps, kind |-> "io"]

\* operation(transaction): the caller's function, by its kind.
Invoke(w, op) ==
  LET w1 == [w EXCEPT !.g.executed = Append(@, op.id)] IN
  CASE op.kind = "io"    -> txRequest(w1, "io")
    [] op.kind = "queue" -> Queue(w1, Child(op))
    [] op.kind = "throw" -> Raise(w1)

RECURSIVE RunOperations(_, _)
RunOperations(w, operations) ==
  IF operations = <<>> THEN w
  ELSE LET w1 == Invoke(w, Head(operations)) IN
       IF w1.err THEN w1 ELSE RunOperations(w1, Tail(operations))

\* A drain that walks the batch from its end.
executedPendingOperations_reversed(w) ==
  LET operations == w.r.queuedOperations IN
  RunOperations([w EXCEPT !.r.queuedOperations = <<>>], Reverse(operations))

executedPendingOperations(w) ==
  LET operations == w.r.queuedOperations IN
  RunOperations([w EXCEPT !.r.queuedOperations = <<>>], operations)

\* A commit() that drains the queue itself before it returns.
commit_drains(w) ==
  IF w.r.aborted THEN Raise(w)
  ELSE IF ~w.r.active THEN Raise(w)
  ELSE Caught(executedPendingOperations(
                [w EXCEPT !.r.active = FALSE,
                          !.g.finishes = @ + 1,
                          !.g.committing = TRUE]))

commit(w) ==
  IF w.r.aborted THEN Raise(w)
  ELSE IF ~w.r.active THEN Raise(w)
  ELSE [w EXCEPT !.r.active = FALSE,
                 !.g.finishes = @ + 1,
                 !.g.committing = TRUE]

\* options.observer(..., aborted, ...)
Notify(w, isAborted) ==
  [w EXCEPT !.g.notices = Append(@, isAborted),
            !.g.warnedAt = IF isAborted THEN @ ELSE Len(w.g.accepted)]

\* checkIdleStatus() without its idleWarningSent flag.
checkIdleStatus_warnsAgain(w, time) ==
  IF w.r.idleSince = NULL THEN
    IF Len(w.r.queuedOperations) = 0
      THEN [w EXCEPT !.r.idleSince = time]
      ELSE w
  ELSE IF Len(w.r.queuedOperations) # 0 THEN
    [w EXCEPT !.r.idleSince = NULL, !.r.idleWarningSent = FALSE]
  ELSE
    LET idleDuration == time - w.r.idleSince IN
    IF idleDuration > w.r.options.ttl THEN
      IF w.r.aborted THEN w
      ELSE LET w1 == abort(w) IN
           IF w1.err THEN w1
           ELSE Notify([w1 EXCEPT !.r.idleAbort = TRUE], TRUE)
    ELSE IF idleDuration > w.r.options.warningDelay THEN
      Notify(w, FALSE)
    ELSE w

\* checkIdleStatus() with the warning tested before the ttl.
checkIdleStatus_warningFirst(w, time) ==
  IF w.r.idleSince = NULL THEN
    IF Len(w.r.queuedOperations) = 0
      THEN [w EXCEPT !.r.idleSince = time]
      ELSE w
  ELSE IF Len(w.r.queuedOperations) # 0 THEN
    [w EXCEPT !.r.idleSince = NULL, !.r.idleWarningSent = FALSE]
  ELSE
    LET idleDuration == time - w.r.idleSince IN
    IF idleDuration > w.r.options.warningDelay /\ ~w.r.idleWarningSent THEN
      Notify([w EXCEPT !.r.idleWarningSent = TRUE], FALSE)
    ELSE IF idleDuration > w.r.options.ttl THEN
      IF w.r.aborted THEN w
      ELSE LET w1 == abort(w) IN
           IF w1.err THEN w1
           ELSE Notify([w1 EXCEPT !.r.idleAbort = TRUE], TRUE)
    ELSE w

checkIdleStatus(w, time) ==
  IF w.r.idleSince = NULL THEN
    IF Len(w.r.queuedOperations) = 0
      THEN [w EXCEPT !.r.idleSince = time]
      ELSE w
  ELSE IF Len(w.r.queuedOperations) # 0 THEN
    [w EXCEPT !.r.idleSince = NULL, !.r.idleWarningSent = FALSE]
  ELSE
    LET idleDuration == time - w.r.idleSince IN
    IF idleDuration > w.r.options.ttl THEN
      IF w.r.aborted THEN w
      ELSE LET w1 == abort(w) IN
           IF w1.err THEN w1
           ELSE Notify([w1 EXCEPT !.r.idleAbort = TRUE], TRUE)
    ELSE IF idleDuration > w.r.options.warningDelay THEN
      IF w.r.idleWarningSent THEN w
      ELSE Notify([w EXCEPT !.r.idleWarningSent = TRUE], FALSE)
    ELSE w

\* A keepAlive() that issues the next probe before the idle check.
keepAlive_probesFirst(w, time) ==
  LET w0 == txRequest(w, "probe") IN
  IF w0.err THEN w0
  ELSE LET w1 == checkIdleStatus(w0, time) IN
       IF w1.err THEN w1 ELSE executedPendingOperations(w1)

\* keepAlive(): idle check, drain, next probe.
keepAlive(w, time) ==
  LET w1 == checkIdleStatus(w, time) IN
  IF w1.err THEN w1
  ELSE LET w2 == executedPendingOperations(w1) IN
       IF w2.err THEN w2 ELSE txRequest(w2, "probe")

\* The then() callback that would go on with keepAlive() after commit().
keepAliveThen_neverStops(w, time) ==
  IF w.r.aborted THEN w
  ELSE keepAlive(w, time)

\* The then() callback without its check of the aborted flag.
keepAliveThen_ignoresAbort(w, time) ==
  IF w.r.active THEN keepAlive(w, time)
  ELSE executedPendingOperations(w)

\* The probe's then() callback.
keepAliveThen(w, time) ==
  IF w.r.aborted THEN w
  ELSE IF w.r.active THEN keepAlive(w, time)
  ELSE executedPendingOperations(w)

\* The probe's catch() callback (later revision only).  An error thrown by
\* abort() here is an unhandled rejection.
keepAliveCatch(w) ==
  IF w.r.aborted THEN w
  ELSE Caught(abort(w))

\* then(...).catch(...): the catch() handler also receives what the then()
\* callback throws; without it the rejection is unhandled.
ProbeResolved(w, time, rev) ==
  LET w1 == keepAliveThen(w, time) IN
  IF ~w1.err THEN w1
  ELSE IF rev = "catch" THEN keepAliveCatch(Caught(w1))
  ELSE Caught(w1)

ProbeRejected(w, rev) ==
  IF rev = "catch" THEN keepAliveCatch(w) ELSE w

\* The fields the constructor sets before it calls initRunner.
NewRunner(options) ==
  [ aborted          |-> FALSE,
    active           |-> TRUE,
    queuedOperations |-> <<>>,
    options          |-> options,
    idleSince        |-> NULL,
    idleWarningSent  |-> FALSE,
    abortPromise     |-> "none",
    idleAbort        |-> FALSE ]

NewTx == [state |-> "active", requests |-> <<>>]

NewLog ==
  [ accepted   |-> <<>>,
    refused    |-> {},
    executed   |-> <<>>,
    notices    |-> <<>>,
    atAbort    |-> {},
    finishes   |-> 0,
    committing |-> FALSE,
    queued     |-> 0,
    call       |-> <<"new", FALSE>>,
    abortError |-> "none",
    probeFailed |-> FALSE,   \* a probe read has failed
    warnedAt   |-> -1 ]   \* operations accepted before the last warning

\* initRunner: the constructor's first keepAlive().
initRunner(options, time) ==
  keepAlive([r |-> NewRunner(options), t |-> NewTx, g |-> NewLog,
             err |-> FALSE, strict |-> TRUE], time)

\* ------------------------------------------------------------ entity data

\* An entity or a record is a plain object with primitive fields: its own
\* enumerable fields in insertion order, as <<name, value>> pairs.
KeyPath == "id"

DataFields == {"a", "b"}

FieldValues == {1, 2}

HasField(o, f) == \E i \in DOMAIN o : o[i][1] = f

GetField(o, f) == o[CHOOSE i \in DOMAIN o : o[i][1] = f][2]

\* object[f] = v
SetField(o, f, v) ==
  IF HasField(o, f)
    THEN [i \in DOMAIN o |-> IF o[i][1] = f THEN <<f, v>> ELSE o[i]]
    ELSE Append(o, <<f, v>>)

DeleteField(o, f) ==
  LET Keeps(pair) == pair[1] # f IN SelectSeq(o, Keeps)

RECURSIVE ObjectAssign(_, _)
\* Object.assign(target, source)
ObjectAssign(target, source) ==
  IF source = <<>> THEN target
  ELSE ObjectAssign(SetField(target, Head(source)[1], Head(source)[2]),
                    Tail(source))

\* clone(): cloneObject() copies the keys in Object.keys() order into {}.
clone(value) == ObjectAssign(<<>>, value)

\* equals(): objectEquals() pairs the keys of both objects by position
\* (structureEquals walks the two key lists from their ends).
equals(value1, value2) ==
  /\ Len(value1) = Len(value2)
  /\ \A i \in DOMAIN value1 :
       /\ value1[i][1] = value2[i][1]
       /\ value1[i][2] = value2[i][2]

\* getPrimaryKey(entity, keyPath) for a one-field key path.
getPrimaryKey(entity) ==
  IF HasField(entity, KeyPath) THEN GetField(entity, KeyPath) ELSE NULL

\* serializeKey(key) for a number: JSON.stringify(key).
serializeKey(key) == ToString(key)

\* ----------------------------------------------- the database (environment)

\* The keys of the store: two records to start with, and those persist() adds.
Keys == 1 .. (2 + MaxPersists)

Absent == <<>>

InitialStorage ==
  [ records |-> [k \in Keys |->
                   IF k <= 2 THEN <<<<KeyPath, k>>, <<"a", 1>>>> ELSE Absent],
    keyGen  |-> 3 ]

NoHandle == [state |-> "none", requests |-> <<>>, view |-> InitialStorage]

\* database.startTransaction(storeNames)
dbStartTransaction(store) ==
  [state |-> "active", requests |-> <<>>, view |-> store]

IsProbeRequest(req) == req.kind = "probe"

\* IDBTransaction.abort(): what was written is discarded, the pending
\* requests fail; the probe stays listed until its callback has run.
dbAbort(d) ==
  [d EXCEPT !.state = "aborted",
            !.requests = SelectSeq(@, IsProbeRequest)]

\* A store method called on the transaction: throws unless it is active.
dbRequest(w, req) ==
  IF w.d.state = "active"
    THEN [w EXCEPT !.d.requests = Append(@, req)]
    ELSE Raise(w)

\* ---------------------------------------------------------- EntityManager

NewEntityManager ==
  [ activeTransaction |-> FALSE,
    entities          |-> << >>,
    \* where the promise chain of runTransaction() stands, and the error
    \* its catch() callback holds
    run               |-> [state |-> "none", error |-> "none"] ]

\* The persistence context is a Map from serialized key to {data, entity};
\* here a sequence of <<serialized key, entry>> in insertion order.
ContextHas(e, skey) == \E i \in DOMAIN e.entities : e.entities[i][1] = skey

ContextGet(e, skey) ==
  e.entities[CHOOSE i \in DOMAIN e.entities : e.entities[i][1] = skey][2]

\* EntityManager[PRIVATE.manage](entityClass, keyPath, record): the entity
\* already managed under the record's key, or a new managed entity.
\* manage() that would not look the key up in the persistence context.
manage_alwaysNew(w, record) ==
  LET skey == serializeKey(getPrimaryKey(record))
      entity == Len(w.h) + 1 IN
  [w EXCEPT !.h = Append(@, record),
            !.e.entities =
               Append(@, <<skey, [data |-> clone(record),
                                  entity |-> entity]>>),
            !.ret = entity]

manage(w, record) ==
  LET skey == serializeKey(getPrimaryKey(record)) IN
  IF ContextHas(w.e, skey)
    THEN [w EXCEPT !.ret = ContextGet(w.e, skey).entity]
    ELSE LET entity == Len(w.h) + 1 IN
         [w EXCEPT !.h = Append(@, record),
                   !.e.entities =
                      Append(@, <<skey, [data |-> clone(record),
                                         entity |-> entity]>>),
                   !.ret = entity]

\* EntityManager.clear()
clear(w) == [w EXCEPT !.e.entities = << >>]

\* The completion callback startTransaction() hands to the Transaction.
completionCallback(w) ==
  clear([w EXCEPT !.e.activeTransaction = FALSE,
                  !.g.completions =
                     Append(@, [commit |-> w.x.commitPromise,
                                abort  |-> w.x.abortPromise,
                                handle |-> w.d.state])])

\* ------------------------------------------------------------ Transaction

NoTransaction ==
  [ exists            |-> FALSE,
    active            |-> FALSE,
    aborted           |-> FALSE,
    pendingOperations |-> <<>>,
    transaction       |-> FALSE,
    timers            |-> <<>>,
    commitPromise     |-> "none",
    abortPromise      |-> "none" ]

\* new Transaction(...): the fields its constructor sets.
NewTransaction ==
  [NoTransaction EXCEPT !.exists = TRUE, !.active = TRUE]

\* A commit() that would write every entry back, modified or not.
WriteBacks_all(w) ==
  [i \in DOMAIN w.e.entities |->
     [kind |-> "put", entity |-> w.e.entities[i][2].entity]]

\* The entries of the persistence context whose entity is not equal to its
\* snapshot, as the put() operations commit() queues.
WriteBacks(w) ==
  LET IsDirty(pair) == ~equals(w.h[pair[2].entity], pair[2].data)
      dirty == SelectSeq(w.e.entities, IsDirty) IN
  [i \in DOMAIN dirty |-> [kind |-> "put", entity |-> dirty[i][2].entity]]

\* What commit() sees of the persistence context: (entity, snapshot, state).
ContextAtCommit(w) ==
  { [entity |-> w.e.entities[i][2].entity,
     data   |-> w.e.entities[i][2].data,
     live   |-> w.h[w.e.entities[i][2].entity]] : i \in DOMAIN w.e.entities }

\* Transaction.commit(); without the IndexedDB transaction yet, it retries
\* itself from a zero timeout.
T_commit(w) ==
  IF ~w.x.active THEN Raise(w)
  ELSE IF ~w.x.transaction THEN
    [w EXCEPT !.x.timers = Append(@, "commit")]
  ELSE
    \* then() on a completionPromise that has rejected never runs
    [w EXCEPT !.x.pendingOperations = @ \o WriteBacks(w),
              !.x.active = FALSE,
              !.x.commitPromise =
                 IF w.d.state = "aborted" THEN "rejected" ELSE "pending",
              !.g.atCommit = ContextAtCommit(w)]

\* Transaction.abort(); same retry.
T_abort(w) ==
  IF ~w.x.active THEN Raise(w)
  ELSE IF ~w.x.transaction THEN
    [w EXCEPT !.x.timers = Append(@, "abort")]
  ELSE
    LET w1 == [w EXCEPT !.x.active = FALSE, !.x.aborted = TRUE] IN
    IF w.d.state = "active"
      THEN [w1 EXCEPT !.x.abortPromise = "pending", !.d = dbAbort(@)]
    \* abort() of a transaction that has finished throws, or does nothing
    ELSE IF w.strict THEN Raise(w1)
    ELSE [w1 EXCEPT !.x.abortPromise = "pending"]

\* completionPromise.then(...) of commit(): every snapshot is refreshed,
\* then the completion callback runs.
T_commitFulfilled(w) ==
  LET Refresh(pair) ==
        <<pair[1], [pair[2] EXCEPT !.data = clone(w.h[pair[2].entity])]>>
      w1 == [w EXCEPT !.e.entities = [i \in DOMAIN @ |-> Refresh(@[i])]] IN
  [completionCallback(w1) EXCEPT !.x.commitPromise = "resolved"]

RECURSIVE RevertEntities(_, _)
RevertEntities(h, entries) ==
  IF entries = <<>> THEN h
  ELSE LET entry == Head(entries)[2] IN
       RevertEntities(
         [h EXCEPT ![entry.entity] = ObjectAssign(@, clone(entry.data))],
         Tail(entries))

\* completionPromise.then(...).catch(...) of abort(): every entity is
\* assigned a clone of its snapshot, then the completion callback runs and
\* the error is thrown again.
T_abortRejected(w) ==
  [completionCallback([w EXCEPT !.h = RevertEntities(@, w.e.entities)])
     EXCEPT !.x.abortPromise = "rejected",
            !.g.abortError = "AbortError"]

\* completionPromise.then(...) of abort(), for a transaction that completed:
\* unexpectedEnd is set and the Error thrown passes through the catch().
T_abortUnexpectedEnd(w) ==
  [w EXCEPT !.x.abortPromise = "rejected", !.g.abortError = "Error"]

\* The promise abort() returned settles when completionPromise has.
T_abortSettled(w, completion) ==
  IF completion = "complete" THEN T_abortUnexpectedEnd(w)
  ELSE T_abortRejected(w)

T_persist(w, entity) ==
  IF ~w.x.active THEN Raise(w)
  ELSE [w EXCEPT !.x.pendingOperations =
                    Append(@, [kind |-> "add", entity |-> entity])]

T_remove(w, primaryKey) ==
  IF ~w.x.active THEN Raise(w)
  ELSE [w EXCEPT !.x.pendingOperations =
                    Append(@, [kind |-> "delete", key |-> primaryKey])]

\* updateQuery(...) returns the function that takes the entity callback.
T_updateQuery(w) ==
  IF ~w.x.active THEN Raise(w)
  ELSE [w EXCEPT !.g.updater = TRUE]

\* The function updateQuery() returned, called with an entity callback.
\* (late: the transaction was no longer active at the call.)
T_updateQueryRun(w, mutation) ==
  [w EXCEPT !.x.pendingOperations =
               Append(@, [kind |-> "update", mutation |-> mutation,
                          late |-> ~w.x.active])]

T_deleteQuery(w, filter) ==
  IF ~w.x.active THEN Raise(w)
  ELSE [w EXCEPT !.x.pendingOperations =
                    Append(@, [kind |-> "deleteQuery", filter |-> filter])]

\* A pending operation run with the IndexedDB transaction.  add() and put()
\* copy the entity as it is when they are called.  All but commit()'s put
\* place their request inside try/catch (an error rejects the promise).
T_operation(w, op) ==
  CASE op.kind = "add" ->
         Caught(dbRequest(w, [kind |-> "add", entity |-> op.entity,
                              value |-> clone(w.h[op.entity])]))
    [] op.kind = "put" ->
         dbRequest(w, [kind |-> "put", entity |-> op.entity,
                       value |-> clone(w.h[op.entity])])
    [] op.kind = "delete" ->
         Caught(dbRequest(w, [kind |-> "delete", key |-> op.key,
                              origin |-> "remove"]))
    [] op.kind = "update" ->
         Caught(dbRequest(w, [kind |-> "update", mutation |-> op.mutation,
                              late |-> op.late]))
    [] op.kind = "deleteQuery" ->
         Caught(dbRequest(w, [kind |-> "deleteQuery", filter |-> op.filter]))
    [] op.kind \in {"get", "query"} ->
         \* the wrapper of runTransactionOperation around objectStore.get()
         \* and objectStore.query()
         Caught(dbRequest(w, op))

RECURSIVE T_runOperations(_, _)
T_runOperations(w, operations) ==
  IF operations = <<>> \/ w.err THEN w
  ELSE T_runOperations(T_operation(w, Head(operations)), Tail(operations))

T_executedPendingOperations(w) ==
  LET operations == w.x.pendingOperations IN
  T_runOperations([w EXCEPT !.x.pendingOperations = <<>>], operations)

\* keepAlive(): drain, then the next probe read.
\* A keepAlive() that would drain without the probe read.
T_keepAlive_noProbe(w) == T_executedPendingOperations(w)

T_keepAlive(w) ==
  LET w1 == T_executedPendingOperations(w) IN
  IF w1.err THEN w1 ELSE dbRequest(w1, [kind |-> "probe"])

\* The probe's then() callback.
T_keepAliveThen(w) ==
  IF w.x.aborted THEN w
  ELSE IF w.x.active THEN T_keepAlive(w)
  ELSE T_executedPendingOperations(w)

\* connection.then(...): the transaction is started on the database and the
\* first keepAlive() runs.
T_initTransactionRunner(w, store) ==
  T_keepAlive([w EXCEPT !.d = dbStartTransaction(store),
                        !.x.transaction = TRUE])

NewHistory ==
  [ call     |-> <<"none", FALSE>>,  \* the last public call and whether it threw
    calls    |-> 0,
    edits    |-> 0,
    persists |-> 0,
    started  |-> 0,
    ended    |-> FALSE,   \* commit() or abort() was called on txn
    updater  |-> FALSE,   \* the application holds updateQuery()'s function
    atCommit |-> {},      \* the persistence context as commit() found it
    puts     |-> {},      \* the entities whose write-back was performed
    completions |-> <<>>, \* what each run of the completion callback found
    persisted |-> {},     \* what the promises of persist() resolved to
    applied  |-> <<>>,    \* the entity callback's runs in the last update query
    deleted  |-> {},      \* the keys the last delete query has deleted
    found    |-> {},      \* what find() and query() resolved to in the transaction
    merged   |-> {},      \* the entities merge() entered into the context
    failed   |-> FALSE,   \* the database has aborted the transaction
    fn       |-> "none",  \* how the callback of runTransaction() ended
    runOutcome |-> <<"none", "none">>,  \* what runTransaction()'s promise did
    settle   |-> [op |-> "none"],  \* the last operation promise settled
    settles  |-> 0,
    abortError |-> "none",   \* what the promise of abort() rejected with
    retryError |-> "none" ]  \* what abort() threw when a timeout retried it

\* EntityManager.startTransaction()
startTransaction(w) ==
  IF w.e.activeTransaction THEN Raise(w)
  ELSE [w EXCEPT !.e.activeTransaction = TRUE,
                 !.x = NewTransaction,
                 !.d = NoHandle,
                 !.g.started = @ + 1,
                 !.g.ended = FALSE,
                 !.g.updater = FALSE,
                 !.g.atCommit = {},
                 !.g.puts = {},
                 !.g.completions = <<>>,
                 !.g.persisted = {},
                 !.g.applied = <<>>,
                 !.g.deleted = {},
                 !.g.found = {},
                 !.g.merged = {},
                 !.g.failed = FALSE,
                 !.g.fn = "none",
                 !.g.runOutcome = <<"none", "none">>,
                 !.g.settle = [op |-> "none"],
                 !.g.settles = 0,
                 !.g.abortError = "none",
                 !.g.retryError = "none"]

\* ------------------------------------- the entity manager's read operations

\* A promise the Transaction or the entity manager returned for an operation settles.
Settle(w, event) == [w EXCEPT !.g.settle = event, !.g.settles = @ + 1]

\* The promise of a find() or query() resolves: an entity of its result
\* (recorded for the calls made in a transaction).
Found(w, call, key, entity, via) ==
  IF ~w.e.activeTransaction THEN w
  ELSE [w EXCEPT !.g.found = @ \cup {[call |-> call, key |-> key,
                                      entity |-> entity, via |-> via]}]

\* EntityManager[PRIVATE.runTransactionOperation](operation): the operation
\* is queued on the transaction's runner, which refuses it once it is no
\* longer active (the promise rejects).  The runner's queue is the queue of
\* pending operations the Transaction of src/es2015 keeps itself.
runTransactionOperation(w, op) ==
  IF w.x.aborted \/ ~w.x.active
    THEN Settle(w, [op |-> op.purpose, outcome |-> "rejected"])
    ELSE [w EXCEPT !.x.pendingOperations = Append(@, op)]

\* EntityManager.find(entityClass, primaryKey) while a transaction is open,
\* or on a key the persistence context holds.
find(w, primaryKey) ==
  LET skey == serializeKey(primaryKey)
      call == w.g.calls + 1 IN
  IF ContextHas(w.e, skey)
    THEN Found(w, call, primaryKey, ContextGet(w.e, skey).entity, "context")
    ELSE runTransactionOperation(
           w, [kind |-> "get", key |-> primaryKey, purpose |-> "find",
               call |-> call])

\* EntityManager.find() with no transaction open: the record is read in a
\* read-only transaction and becomes a new entity.
findDetached(w, store, primaryKey) ==
  LET skey == serializeKey(primaryKey) IN
  IF ContextHas(w.e, skey) THEN w
  ELSE IF store.records[primaryKey] = Absent THEN w
  ELSE [w EXCEPT !.h = Append(@, store.records[primaryKey])]

\* EntityManager.query(entityClass) while a transaction is open.
query(w) ==
  runTransactionOperation(
    w, [kind |-> "query", purpose |-> "query", call |-> w.g.calls + 1])

\* The then() callback of query(): every record is mapped to its entity.
RECURSIVE queryThen(_, _, _)
queryThen(w, call, k) ==
  IF k \notin Keys THEN w
  ELSE IF w.d.view.records[k] = Absent THEN queryThen(w, call, k + 1)
  ELSE LET w1 == manage(w, w.d.view.records[k]) IN
       queryThen(Found(w1, call, k, w1.ret, "query"), call, k + 1)

\* entities.set(serializedKey, entry) on the Map of the persistence context
ContextSet(e, skey, entry) ==
  IF ContextHas(e, skey)
    THEN [e EXCEPT !.entities =
            [i \in DOMAIN @ |-> IF @[i][1] = skey THEN <<skey, entry>> ELSE @[i]]]
    ELSE [e EXCEPT !.entities = Append(@, <<skey, entry>>)]

\* EntityManager[PRIVATE.deleteExtraneousFields](target, mask)
deleteExtraneousFields(target, mask) ==
  LET InMask(pair) == HasField(mask, pair[1]) IN SelectSeq(target, InMask)

\* processRefreshedData(entityData) of refresh(entity): the entity is entered
\* in the persistence context with the record as its snapshot and is given
\* the record's fields.
processRefreshedData(w, entity, primaryKey, entityData) ==
  [w EXCEPT !.e = ContextSet(@, serializeKey(primaryKey),
                             [data |-> clone(entityData), entity |-> entity]),
            !.h[entity] = deleteExtraneousFields(ObjectAssign(@, entityData),
                                                 entityData)]

\* EntityManager.refresh(entity) while a transaction is open.
refresh(w, entity) ==
  runTransactionOperation(
    w, [kind |-> "get", key |-> getPrimaryKey(w.h[entity]),
        purpose |-> "refresh", entity |-> entity])

\* EntityManager.refresh(entity) with no transaction open: the record is read
\* in a read-only transaction.
refreshDetached(w, store, entity) ==
  LET primaryKey == getPrimaryKey(w.h[entity]) IN
  processRefreshedData(w, entity, primaryKey, store.records[primaryKey])

\* EntityManager.contains(entity)
contains(w, entity) ==
  LET skey == serializeKey(getPrimaryKey(w.h[entity])) IN
  ContextHas(w.e, skey) /\ ContextGet(w.e, skey).entity = entity

\* EntityManager[PRIVATE.manage](entityClass, keyPath, entity, true) for an
\* entity whose key the context does not hold: the entry is marked foreign.
manageForeign(w, entity) ==
  LET skey == serializeKey(getPrimaryKey(w.h[entity])) IN
  [w EXCEPT !.e.entities =
               Append(@, <<skey, [data    |-> clone(w.h[entity]),
                                  entity  |-> entity,
                                  foreign |-> TRUE]>>),
            !.g.merged = @ \cup {entity},
            !.ret = entity]

\* EntityManager.merge(entity)
merge(w, entity) ==
  LET skey == serializeKey(getPrimaryKey(w.h[entity])) IN
  IF ~w.e.activeTransaction THEN Raise(w)
  ELSE IF contains(w, entity) THEN [w EXCEPT !.ret = entity]
  ELSE IF ~ContextHas(w.e, skey) THEN manageForeign(w, entity)
  ELSE LET entityClone == clone(w.h[entity])
           w1 == manage(w, entityClone) IN
       [w1 EXCEPT !.h[w1.ret] = ObjectAssign(@, entityClone)]

\* EntityManager.runTransaction(operations): the transaction is started and
\* the callback runs in it.
runTransaction(w) ==
  LET w1 == startTransaction(w) IN
  IF w1.err THEN w1
  ELSE [w1 EXCEPT !.e.run = [state |-> "running", error |-> "none"],
                  !.g.fn = "running",
                  !.g.runOutcome = <<"pending", "none">>]

\* The promise of runTransaction() settles.
runSettled(w, outcome, value) ==
  [w EXCEPT !.e.run = [state |-> "none", error |-> "none"],
            !.g.runOutcome = <<outcome, value>>]

\* .catch((error) => transaction.abort().catch(...).then(() => { throw
\* error })): what abort() throws is thrown by the callback itself.
runCatch(w, error) ==
  LET w1 == T_abort(w) IN
  IF w1.err THEN runSettled(Caught(w1), "rejected", "InvalidStateError")
  ELSE [w1 EXCEPT !.e.run = [state |-> "aborting", error |-> error]]

\* .then((result) => transaction.commit().then(() => result))
runThen(w) ==
  LET w1 == T_commit(w) IN
  IF w1.err THEN runCatch(Caught(w1), "InvalidStateError")
  ELSE IF w1.x.commitPromise = "rejected" THEN runCatch(w1, "AbortError")
  ELSE [w1 EXCEPT !.e.run = [state |-> "committing", error |-> "none"]]

\* The callbacks runTransaction() chained to the promises of commit() and
\* abort(), run when these settle.
runReact(w) ==
  IF w.e.run.state = "committing" /\ w.x.commitPromise = "resolved"
    THEN runSettled(w, "resolved", "result")
  ELSE IF w.e.run.state = "committing" /\ w.x.commitPromise = "rejected"
    THEN runCatch(w, "AbortError")
  ELSE IF /\ w.e.run.state = "aborting"
          /\ w.x.abortPromise = "rejected" \/ w.g.retryError # "none"
    THEN runSettled(w, "rejected", w.e.run.error)
  ELSE w

\* ------------------------------------------ requests served by the database

\* The entity callbacks the application passes to an update query.
Mutations == {"none", "add b", "delete a"}

\* The filters the application passes to a delete query: none, or the
\* primary key of the record to match.
QueryFilters == {NULL, 1}

\* The keys of the records a query with the filter matches.
Matched(records, filter) ==
  {k \in Keys : records[k] # Absent /\ (filter = NULL \/ k = filter)}

entityCallback(mutation, entity) ==
  CASE mutation = "none" -> entity
    [] mutation = "add b" -> SetField(entity, "b", 2)
    [] mutation = "delete a" -> DeleteField(entity, "a")

\* The update query's per-record callback: the record's managed entity is
\* looked up or created, handed to the entity callback, and saved.
UpdateRecord(w, mutation, k) ==
  LET w1 == manage(w, w.d.view.records[k])
      entity == w1.ret
      w2 == [w1 EXCEPT !.h[entity] = entityCallback(mutation, @),
                       !.g.applied =
                          Append(@, [key |-> k, entity |-> entity,
                                     managed |-> Len(w1.h) = Len(w.h)])] IN
  [w2 EXCEPT !.d.view.records[k] = clone(w2.h[entity])]

RECURSIVE UpdateRecords(_, _, _)
UpdateRecords(w, mutation, k) ==
  IF k \notin Keys THEN w
  ELSE UpdateRecords(
         IF w.d.view.records[k] = Absent THEN w
         ELSE UpdateRecord(w, mutation, k),
         mutation, k + 1)

\* One delete request per record the delete query matched; the promise
\* of the query follows Promise.all over them.
DeleteRequests(records, filter) ==
  LET Match(k) == k \in Matched(records, filter)
      AllKeys == [k \in Keys |-> k] IN
  [i \in DOMAIN SelectSeq(AllKeys, Match) |->
     [kind |-> "delete", key |-> SelectSeq(AllKeys, Match)[i],
      origin |-> "deleteQuery", first |-> i = 1]]

\* The request at the head of the list takes effect and its callback runs.
Serve(w, req) ==
  CASE req.kind = "add" ->
         LET key == w.d.view.keyGen
             record == SetField(req.value, KeyPath, key) IN
         [w EXCEPT !.d.view.records[key] = record,
                   !.d.view.keyGen = key + 1,
                   \* setPrimaryKey(entity, keyPath, primaryKey)
                   !.h[req.entity] = SetField(@, KeyPath, key),
                   \* resolve(entity)
                   !.g.persisted = @ \cup {[given |-> req.entity,
                                            value |-> req.entity,
                                            key   |-> key]}]
    [] req.kind = "put" ->
         [w EXCEPT !.d.view.records[getPrimaryKey(req.value)] = req.value,
                   !.g.puts = @ \cup {req.entity}]
    [] req.kind = "delete" /\ req.origin = "remove" ->
         \* delete(primaryKey).then(resolve)
         Settle([w EXCEPT !.d.view.records[req.key] = Absent],
                [op |-> "remove", outcome |-> "resolved", key |-> req.key])
    [] req.kind = "delete" /\ req.origin = "deleteQuery" ->
         \* the detach call in delete's callback passes (entityClass,
         \* primaryKey) and throws in EntityManager.detach(entity); the
         \* first rejection settles Promise.all
         LET w1 == [w EXCEPT !.d.view.records[req.key] = Absent,
                             !.g.deleted = @ \cup {req.key}] IN
         IF req.first
           THEN Settle(w1, [op |-> "deleteQuery", outcome |-> "rejected",
                            value |-> [type |-> "TypeError"]])
           ELSE w1
    [] req.kind = "update" ->
         \* updateQuery(...)(callback).then(resolve): the number of records
         LET w1 == UpdateRecords([w EXCEPT !.g.applied = <<>>],
                                 req.mutation, 1) IN
         Settle(w1, [op |-> "updateQuery", outcome |-> "resolved",
                     value |-> [type |-> "number",
                                value |-> Len(w1.g.applied)],
                     late |-> req.late])
    [] req.kind = "get" /\ req.purpose = "find" ->
         \* if (entityData) return this[PRIVATE.manage](...); return null
         IF w.d.view.records[req.key] = Absent THEN w
         ELSE LET w1 == manage(w, w.d.view.records[req.key]) IN
              Found(w1, req.call, req.key, w1.ret, "get")
    [] req.kind = "get" /\ req.purpose = "refresh" ->
         processRefreshedData(w, req.entity, req.key,
                              w.d.view.records[req.key])
    [] req.kind = "query" -> queryThen(w, req.call, 1)
    [] req.kind = "deleteQuery" ->
         \* query().then(records => Promise.all(records.map(delete ...))
         \*   .then(resolve)): with no record, the empty array
         LET requests == DeleteRequests(w.d.view.records, req.filter)
             w1 == [w EXCEPT !.d.requests = @ \o requests,
                             !.g.deleted = {}] IN
         IF requests = <<>>
           THEN Settle(w1, [op |-> "deleteQuery", outcome |-> "resolved",
                            value |-> [type |-> "array", length |-> 0]])
           ELSE w1

\* The entity manager before its first transaction.
\* No value has been handed to clone() or equals().
NoValues == [h |-> <<>>, cloned |-> <<>>, out |-> [op |-> "none"]]

\* No key has been handed to serializeKey().
NoKeys == [key1 |-> "none", key2 |-> "none", out |-> <<>>]

ValuesParked == mem = NoValues /\ ser = NoKeys

TxParked ==
  /\ em = NewEntityManager
  /\ txn = NoTransaction
  /\ heap = <<>>
  /\ db = NoHandle
  /\ storage = InitialStorage
  /\ hist = NewHistory

\* ------------------------------------------------------------ the actions

Store(w) ==
  /\ runner' = w.r
  /\ idbTx' = w.t
  /\ log' = w.g

\* A public method called by the application: its outcome is recorded.
Called(w, name) == [Caught(w) EXCEPT !.g.call = <<name, w.err>>]

InitRunner ==
  /\ now = 1
  /\ revision \in Revisions
  /\ \E options \in IdleOptions :
       LET w == initRunner(options, 1) IN
       /\ runner = w.r
       /\ idbTx = w.t
       /\ log = w.g
  /\ TxParked
  /\ ValuesParked

Tick ==
  /\ now < MaxTime
  /\ now' = now + 1
  /\ UNCHANGED <<runner, idbTx, log, revision, txVars, valueVars>>

QueueOperation ==
  /\ log.queued < MaxOps
  /\ \E kind \in OpKinds :
       LET op == [id |-> log.queued + 1, kind |-> kind]
           w == [World EXCEPT !.g.queued = @ + 1] IN
       Store(Called(Queue(w, op), "queueOperation"))
  /\ UNCHANGED <<now, revision, txVars, valueVars>>

Commit ==
  /\ Store(Called(commit(World), "commit"))
  /\ UNCHANGED <<now, revision, txVars, valueVars>>

Abort ==
  /\ \E strict \in BOOLEAN :
       Store(Called(abort([World EXCEPT !.strict = strict]), "abort"))
  /\ UNCHANGED <<now, revision, txVars, valueVars>>

\* The request at the head of the transaction's list is served.
IoDone ==
  /\ idbTx.state = "active"
  /\ idbTx.requests # <<>>
  /\ Head(idbTx.requests) = "io"
  /\ idbTx' = [idbTx EXCEPT !.requests = Tail(@)]
  /\ UNCHANGED <<runner, log, now, revision, txVars, valueVars>>

\* The probe read succeeds.  Its success may already be on its way when the
\* transaction is aborted, so it can still arrive afterwards.
ProbeSucceeds ==
  /\ idbTx.state # "complete"
  /\ idbTx.requests # <<>>
  /\ Head(idbTx.requests) = "probe"
  /\ \E strict \in BOOLEAN :
       Store(ProbeResolved([World EXCEPT !.t.requests = Tail(@),
                                         !.strict = strict], now, revision))
  /\ UNCHANGED <<now, revision, txVars, valueVars>>

\* The probe read fails: the transaction has been aborted.
ProbeFails ==
  /\ idbTx.state = "aborted"
  /\ idbTx.requests # <<>>
  /\ Head(idbTx.requests) = "probe"
  /\ \E strict \in BOOLEAN :
       Store(ProbeRejected([World EXCEPT !.t.requests = Tail(@),
                                         !.g.probeFailed = TRUE,
                                         !.strict = strict], revision))
  /\ UNCHANGED <<now, revision, txVars, valueVars>>

\* The transaction is aborted by the database (a failed request, the quota).
TxFails ==
  /\ idbTx.state = "active"
  /\ idbTx' = txAbort(idbTx)
  /\ UNCHANGED <<runner, log, now, revision, txVars, valueVars>>

\* With no request left the transaction commits: completionPromise resolves.
TxCompletes ==
  /\ idbTx.state = "active"
  /\ idbTx.requests = <<>>
  /\ idbTx' = [idbTx EXCEPT !.state = "complete"]
  /\ UNCHANGED <<runner, log, now, revision, txVars, valueVars>>

\* completionPromise has settled after abort(): the promise abort() returned
\* rejects.  The later revision's idle check hooked the observer to it.
AbortRejected ==
  /\ runner.abortPromise = "pending"
  /\ idbTx.state \in {"aborted", "complete"}
  /\ LET w == abortThen(World, idbTx.state) IN
     Store(IF runner.idleAbort /\ revision = "catch"
             THEN Notify(w, TRUE) ELSE w)
  /\ UNCHANGED <<now, revision, txVars, valueVars>>

NextRunner ==
  \/ Tick
  \/ QueueOperation
  \/ Commit
  \/ Abort
  \/ IoDone
  \/ ProbeSucceeds
  \/ ProbeFails
  \/ TxFails
  \/ TxCompletes
  \/ AbortRejected

SpecRunner == InitRunner /\ [][NextRunner]_vars

\* The database serves every request placed on the transaction, runs the
\* callback of a probe read it served, and commits the transaction once no
\* request is left.
RunnerFairness == WF_vars(IoDone \/ ProbeSucceeds \/ TxCompletes)

\* A runner that warns before it aborts, constructed one tick before the
\* clock's last: the idle policy has no time to act on it.
InitRunnerLate ==
  /\ now = MaxTime - 1
  /\ revision \in Revisions
  /\ \E options \in IdleOptions :
       LET w == initRunner(options, MaxTime - 1) IN
       /\ options.warningDelay >= 1
       /\ options.warningDelay < options.ttl
       /\ runner = w.r
       /\ idbTx = w.t
       /\ log = w.g
  /\ TxParked
  /\ ValuesParked

SpecRunnerLive == InitRunnerLate /\ [][NextRunner]_vars /\ RunnerFairness

\* ------------------------------------------- the actions of the Transaction

TxWorld ==
  [e |-> em, x |-> txn, h |-> heap, d |-> db, g |-> hist,
   err |-> FALSE, ret |-> NULL, strict |-> TRUE]

TxStore(w) ==
  /\ em' = w.e
  /\ txn' = w.x
  /\ heap' = w.h
  /\ db' = w.d
  /\ hist' = w.g

\* A public method called by the application: its outcome is recorded.
TxCalled(w, name) ==
  [Caught(w) EXCEPT !.g.call = <<name, w.err>>, !.g.calls = @ + 1]

\* The runner of SpecRunner, at rest while the Transaction is explored.
RunnerParked ==
  LET w == initRunner(CHOOSE options \in IdleOptions : options.ttl = 2, 1) IN
  /\ runner = w.r
  /\ idbTx = w.t
  /\ log = w.g
  /\ now = 1
  /\ revision = "es2015"

InitTx ==
  /\ RunnerParked
  /\ TxParked
  /\ ValuesParked

StartTransaction ==
  /\ hist.calls < MaxCalls
  /\ hist.started < MaxTx
  /\ TxStore(TxCalled(startTransaction(TxWorld), "startTransaction"))
  /\ UNCHANGED <<storage, runnerVars, valueVars>>

\* connection.then(...): the database connection is there.
ConnectionResolves ==
  /\ txn.exists
  /\ ~txn.transaction
  /\ TxStore(Caught(T_initTransactionRunner(TxWorld, storage)))
  /\ UNCHANGED <<storage, runnerVars, valueVars>>

\* .then(() => this.abort()) of an abort() that found no IndexedDB
\* transaction: what the call throws rejects the promise abort() returned.
AbortRetried(w) ==
  LET w1 == T_abort(w) IN
  IF w1.err
    THEN [w1 EXCEPT !.g.retryError =
                       IF w.x.active THEN "InvalidStateError"
                                     ELSE "no longer active"]
    ELSE w1

\* setTimeout(resolve, 0) of a commit() or abort() that found no IndexedDB
\* transaction yet: the call is made again.
TimeoutFires ==
  /\ txn.timers # <<>>
  /\ \E strict \in BOOLEAN :
       LET w == [TxWorld EXCEPT !.x.timers = Tail(@), !.strict = strict] IN
       TxStore(runReact(Caught(IF Head(txn.timers) = "commit"
                                 THEN T_commit(w) ELSE AbortRetried(w))))
  /\ UNCHANGED <<storage, runnerVars, valueVars>>

CommitTransaction ==
  /\ txn.exists
  /\ em.run.state = "none"
  /\ hist.calls < MaxCalls
  /\ TxStore([TxCalled(T_commit(TxWorld), "commit") EXCEPT !.g.ended = TRUE])
  /\ UNCHANGED <<storage, runnerVars, valueVars>>

AbortTransaction ==
  /\ txn.exists
  /\ em.run.state = "none"
  /\ hist.calls < MaxCalls
  /\ \E strict \in BOOLEAN :
       TxStore([TxCalled(T_abort([TxWorld EXCEPT !.strict = strict]), "abort")
                  EXCEPT !.g.ended = TRUE])
  /\ UNCHANGED <<storage, runnerVars, valueVars>>

\* persist(new Entity({a: value}))
PersistEntity ==
  /\ txn.exists
  /\ hist.calls < MaxCalls
  /\ hist.persists < MaxPersists
  /\ \E value \in FieldValues :
       LET entity == Len(heap) + 1
           w == [TxWorld EXCEPT !.h = Append(@, <<<<"a", value>>>>),
                                !.g.persists = @ + 1] IN
       TxStore(TxCalled(T_persist(w, entity), "persist"))
  /\ UNCHANGED <<storage, runnerVars, valueVars>>

RemoveEntity ==
  /\ txn.exists
  /\ hist.calls < MaxCalls
  /\ \E primaryKey \in {1} :
       TxStore(TxCalled(T_remove(TxWorld, primaryKey), "remove"))
  /\ UNCHANGED <<storage, runnerVars, valueVars>>

UpdateQuery ==
  /\ txn.exists
  /\ hist.calls < MaxCalls
  /\ TxStore(TxCalled(T_updateQuery(TxWorld), "updateQuery"))
  /\ UNCHANGED <<storage, runnerVars, valueVars>>

\* The function updateQuery() returned is called with an entity callback.
UpdateQueryRun ==
  /\ hist.updater
  /\ hist.calls < MaxCalls
  /\ \E mutation \in Mutations :
       TxStore(TxCalled(T_updateQueryRun(TxWorld, mutation), "updateQueryRun"))
  /\ UNCHANGED <<storage, runnerVars, valueVars>>

DeleteQuery ==
  /\ txn.exists
  /\ hist.calls < MaxCalls
  /\ \E filter \in QueryFilters :
       TxStore(TxCalled(T_deleteQuery(TxWorld, filter), "deleteQuery"))
  /\ UNCHANGED <<storage, runnerVars, valueVars>>

\* The application changes a managed entity: entity[field] = value, or
\* delete entity[field].
EditEntity ==
  /\ hist.edits < MaxEdits
  /\ \E i \in DOMAIN em.entities, field \in DataFields :
       LET entity == em.entities[i][2].entity IN
       \/ \E value \in FieldValues :
            heap' = [heap EXCEPT ![entity] = SetField(@, field, value)]
       \/ /\ HasField(heap[entity], field)
          /\ heap' = [heap EXCEPT ![entity] = DeleteField(@, field)]
  /\ hist' = [hist EXCEPT !.edits = @ + 1]
  /\ UNCHANGED <<em, txn, db, storage, runnerVars, valueVars>>

\* The request at the head of the transaction's list is served.
RequestServed ==
  /\ db.state = "active"
  /\ db.requests # <<>>
  /\ ~IsProbeRequest(Head(db.requests))
  /\ TxStore(Serve([TxWorld EXCEPT !.d.requests = Tail(@)], Head(db.requests)))
  /\ UNCHANGED <<storage, runnerVars, valueVars>>

\* The probe read succeeds.  Its success may already be on its way when the
\* transaction is aborted, so it can still arrive afterwards.
KeepAliveServed ==
  /\ db.state \in {"active", "aborted"}
  /\ db.requests # <<>>
  /\ IsProbeRequest(Head(db.requests))
  /\ TxStore(Caught(T_keepAliveThen([TxWorld EXCEPT !.d.requests = Tail(@)])))
  /\ UNCHANGED <<storage, runnerVars, valueVars>>

\* With no request left the transaction commits: what it wrote is in the
\* store, completionPromise resolves and commit()'s callback runs.
HandleCompletes ==
  /\ db.state = "active"
  /\ db.requests = <<>>
  /\ storage' = db.view
  /\ LET w == [TxWorld EXCEPT !.d.state = "complete"] IN
     TxStore(runReact(IF txn.commitPromise = "pending"
                        THEN T_commitFulfilled(w) ELSE w))
  /\ UNCHANGED <<runnerVars, valueVars>>

\* The transaction is aborted by the database (a failed request, the quota):
\* completionPromise rejects, and with it the promise of commit().
HandleFails ==
  /\ db.state = "active"
  /\ \E strict \in BOOLEAN :
       TxStore(runReact([TxWorld EXCEPT
                           !.d.state = "aborted",
                           !.d.requests = <<>>,
                           !.x.commitPromise =
                              IF @ = "pending" THEN "rejected" ELSE @,
                           !.g.failed = TRUE,
                           !.strict = strict]))
  /\ UNCHANGED <<storage, runnerVars, valueVars>>

\* completionPromise rejects after abort(): the catch() callback runs.
HandleAborted ==
  /\ txn.abortPromise = "pending"
  /\ TxStore(runReact(T_abortSettled(TxWorld, db.state)))
  /\ UNCHANGED <<storage, runnerVars, valueVars>>

\* find(Entity, 1)
FindEntity ==
  /\ hist.calls < MaxCalls
  /\ \E primaryKey \in {1} :
       IF em.activeTransaction \/ ContextHas(em, serializeKey(primaryKey))
         THEN TxStore(TxCalled(find(TxWorld, primaryKey), "find"))
         ELSE TxStore(TxCalled(findDetached(TxWorld, storage, primaryKey),
                               "find"))
  /\ UNCHANGED <<storage, runnerVars, valueVars>>

\* query(Entity)
QueryEntities ==
  /\ em.activeTransaction
  /\ hist.calls < MaxCalls
  /\ TxStore(TxCalled(query(TxWorld), "query"))
  /\ UNCHANGED <<storage, runnerVars, valueVars>>

\* refresh(entity), on an entity the application has got hold of or on
\* new Entity({id: 1})
RefreshEntity ==
  /\ hist.calls < MaxCalls
  /\ \E entity \in 1 .. (Len(heap) + 1) :
       LET w == IF entity \in DOMAIN heap THEN TxWorld
                ELSE [TxWorld EXCEPT !.h = Append(@, <<<<KeyPath, 1>>>>)] IN
       IF em.activeTransaction
         THEN TxStore(TxCalled(refresh(w, entity), "refresh"))
         ELSE TxStore(TxCalled(refreshDetached(w, storage, entity),
                               "refresh"))
  /\ UNCHANGED <<storage, runnerVars, valueVars>>

\* The detached instances the application merges: new Entity({id: 1, a: 2}).
MergedRecords == { <<<<KeyPath, 1>>, <<"a", 2>>>> }

\* merge(entity) of an entity the application holds or constructs
MergeEntity ==
  /\ hist.calls < MaxCalls
  /\ \/ \E entity \in DOMAIN heap :
          TxStore(TxCalled(merge(TxWorld, entity), "merge"))
     \/ \E record \in MergedRecords :
          TxStore(TxCalled(merge([TxWorld EXCEPT !.h = Append(@, record)],
                                 Len(heap) + 1), "merge"))
  /\ UNCHANGED <<storage, runnerVars, valueVars>>

\* runTransaction(fn)
RunTransaction ==
  /\ hist.calls < MaxCalls
  /\ hist.started < MaxTx
  /\ TxStore(TxCalled(runTransaction(TxWorld), "runTransaction"))
  /\ UNCHANGED <<storage, runnerVars, valueVars>>

\* The promise fn returned resolves.
FnResolves ==
  /\ em.run.state = "running"
  /\ TxStore(runThen([TxWorld EXCEPT !.g.fn = "resolved"]))
  /\ UNCHANGED <<storage, runnerVars, valueVars>>

\* fn throws, or the promise it returned rejects.
FnFails ==
  /\ em.run.state = "running"
  /\ \E strict \in BOOLEAN :
       TxStore(runCatch([TxWorld EXCEPT !.g.fn = "failed",
                                        !.strict = strict], "fn error"))
  /\ UNCHANGED <<storage, runnerVars, valueVars>>

NextTx ==
  \/ StartTransaction
  \/ ConnectionResolves
  \/ TimeoutFires
  \/ CommitTransaction
  \/ AbortTransaction
  \/ PersistEntity
  \/ RemoveEntity
  \/ UpdateQuery
  \/ UpdateQueryRun
  \/ DeleteQuery
  \/ EditEntity
  \/ RequestServed
  \/ KeepAliveServed
  \/ HandleCompletes
  \/ HandleFails
  \/ HandleAborted

SpecTx == InitTx /\ [][NextTx]_vars

\* A request of the application is at the head of the transaction's list.
RequestDue ==
  /\ db.state = "active"
  /\ db.requests # <<>>
  /\ ~IsProbeRequest(Head(db.requests))

\* The event loop runs every callback that is due: the connection's, the
\* zero timeouts', the probe's and those of the transaction's completion,
\* and the database serves a request that is due (RequestServed is enabled
\* exactly when RequestDue holds, so its weak fairness is written out).
TxFairness ==
  /\ WF_vars(ConnectionResolves)
  /\ WF_vars(TimeoutFires)
  /\ WF_vars(KeepAliveServed)
  /\ WF_vars(HandleCompletes)
  /\ WF_vars(HandleAborted)
  /\ ([]<>(~RequestDue) \/ []<><<RequestServed>>_vars)

SpecTxLive == InitTx /\ [][NextTx]_vars /\ TxFairness

\* The entity manager with its own operations, on the same transaction.
NextEM ==
  \/ StartTransaction
  \/ ConnectionResolves
  \/ TimeoutFires
  \/ CommitTransaction
  \/ AbortTransaction
  \/ RunTransaction
  \/ FnResolves
  \/ FnFails
  \/ FindEntity
  \/ QueryEntities
  \/ RefreshEntity
  \/ MergeEntity
  \/ EditEntity
  \/ RequestServed
  \/ KeepAliveServed
  \/ HandleCompletes
  \/ HandleFails
  \/ HandleAborted

SpecEM == InitTx /\ [][NextEM]_vars

\* ------------------------------------------------ values: clone and equals

\* A value is a primitive or a reference to an object of mem.h.  Primitives
\* are compared by ===, references by identity.
Num(n) == [t |-> "number", v |-> n]

Str(n) == [t |-> "string", v |-> n]

Null == [t |-> "null", v |-> 0]

Undefined == [t |-> "undefined", v |-> 0]

Ref(i) == [t |-> "ref", v |-> i]

\* value instanceof Object
IsObject(value) == value.t = "ref"

\* An object: its class, its own keys in insertion order with their values
\* (the entries of a Set are its keys, the elements of an Array and the bytes
\* of an ArrayBuffer its values), and n, the time of a Date or the reference
\* of the ArrayBuffer behind a typed array, or what valueOf() of a Boolean,
\* Number or String object returns (a string of one character).
NewObject(kind) == [kind |-> kind, keys |-> <<>>, vals |-> <<>>, n |-> 0]

Structures == {"Object", "Array", "Map", "Set"}

\* array.keys(): the indexes
Indexes(elements) == [i \in DOMAIN elements |-> Num(i - 1)]

\* The elements of a typed array are read from its buffer.
Elements(h, node) ==
  IF node.kind = "Int8Array" THEN h[node.n].vals ELSE node.vals

\* ---- clone (world: h, the objects; tv, traversedValues; ret, the result)

\* A new object is constructed.
Construct(s, node) ==
  [s EXCEPT !.h = Append(@, node), !.ret = Ref(Len(s.h) + 1)]

\* The keys cloneArray, cloneMap, cloneSet and cloneObject hand to
\* cloneStructure, and their getters.
CloneKeys(node) ==
  IF node.kind = "Array" THEN Indexes(node.vals) ELSE node.keys

CloneGetter(node, i) ==
  IF node.kind = "Set" THEN Undefined ELSE node.vals[i]

\* The setters: clone[key] = value, clone.set(key, value), clone.add(entry).
CloneSetter(node, key, value) ==
  IF node.kind = "Array"
    THEN [node EXCEPT !.vals = Append(@, value)]
  ELSE IF \E i \in DOMAIN node.keys : node.keys[i] = key
    THEN LET i == CHOOSE j \in DOMAIN node.keys : node.keys[j] = key IN
         IF node.kind = "Set" THEN node ELSE [node EXCEPT !.vals[i] = value]
  ELSE [node EXCEPT !.keys = Append(@, key),
                    !.vals = Append(@, IF node.kind = "Set" THEN Undefined
                                                            ELSE value)]

RECURSIVE cloneValue(_, _)
RECURSIVE cloneStructure(_, _, _, _)

\* A key or a value of cloneStructure: the clone made before, or a new clone
\* that is then entered in traversedValues.
cloneMember(s, value) ==
  IF ~IsObject(value) THEN [s EXCEPT !.ret = value]
  ELSE IF value.v \in DOMAIN s.tv THEN [s EXCEPT !.ret = Ref(s.tv[value.v])]
  ELSE LET s1 == cloneValue(s, value) IN
       [s1 EXCEPT !.tv = (value.v :> s1.ret.v) @@ @]

cloneStructure(s, source, target, i) ==
  LET keys == CloneKeys(s.h[source]) IN
  IF i > Len(keys) THEN s
  ELSE LET sk == cloneMember(s, keys[i])
           sv == cloneMember(sk, CloneGetter(s.h[source], i)) IN
       cloneStructure(
         [sv EXCEPT !.h[target] = CloneSetter(@, sk.ret, sv.ret)],
         source, target, i + 1)

cloneValue(s, value) ==
  IF ~IsObject(value) THEN [s EXCEPT !.ret = value]
  ELSE
    LET node == s.h[value.v] IN
    \* new Boolean(value.valueOf()), new Number(...), new String(...),
    \* new Date(...)
    CASE node.kind \in {"Boolean", "Number", "String", "Date"} ->
           Construct(s, node)
      [] node.kind = "Blob" -> [s EXCEPT !.ret = value]
      \* value.slice()
      [] node.kind = "ArrayBuffer" -> Construct(s, node)
      \* value.subarray(): a new view of the buffer of value
      [] node.kind = "Int8Array" -> Construct(s, node)
      [] node.kind \in Structures ->
           LET s1 == Construct(s, NewObject(node.kind))
               target == s1.ret.v
               s2 == [s1 EXCEPT !.tv = (value.v :> target) @@ @] IN
           [cloneStructure(s2, value.v, target, 1) EXCEPT !.ret = Ref(target)]

\* clone(value): the objects after the call, and the clone
cloneGraph(h, value) ==
  cloneValue([h |-> h, tv |-> <<>>, ret |-> Undefined], value)

\* ---- equals (result: tv, traversedValues after the call; res, "true",
\* "false", or the error thrown)

\* traversedValues.set(key, value)
Traversed(tv, key, value) == (key.v :> value) @@ tv

\* Object.keys(value) as objectEquals takes it (it throws TypeError for null
\* and undefined); the keys of an array are its indexes as strings.
IndexNames(elements) == [i \in DOMAIN elements |-> [t |-> "index", v |-> i - 1]]

ObjectKeys(h, value) ==
  IF ~IsObject(value) THEN <<>>
  ELSE LET node == h[value.v] IN
       IF node.kind = "Object" THEN node.keys
       ELSE IF node.kind \in {"Array", "Int8Array"}
         THEN IndexNames(Elements(h, node))
       ELSE IF node.kind = "String" THEN IndexNames(<<node.n>>)
       ELSE <<>>

\* set.values() and map.values() as setEquals takes them
SetValues(node) == IF node.kind = "Set" THEN node.keys ELSE node.vals

\* .size and .length of a value; undefined (-1) where there is none
SizeOf(h, value) ==
  IF IsObject(value) /\ h[value.v].kind \in {"Map", "Set"}
    THEN Len(h[value.v].keys) ELSE -1

\* The getters: object[key] and array[key] read the structure's own value of
\* the key; the getter of setEquals returns undefined.
EqualsGetter(h, structure, getter, i) ==
  IF getter = "undefined" THEN Undefined ELSE Elements(h, h[structure.v])[i]

RECURSIVE equalsValue(_, _, _, _, _)
RECURSIVE structureEquals(_, _, _, _, _, _, _, _, _)

\* The loop of structureEquals, from the last key to the first.
structureEquals(h, structure1, structure2, keys1, keys2, getter, tv, i, stack) ==
  IF i = 0 THEN [tv |-> tv, res |-> "true"]
  ELSE
    LET key1 == keys1[i]
        key2 == keys2[i] IN
    IF IsObject(key1) /\ key1.v \in DOMAIN tv /\ tv[key1.v] # key2
      THEN [tv |-> tv, res |-> "false"]
    ELSE
      LET rk == equalsValue(h, key1, key2, tv, stack) IN
      IF rk.res # "true" THEN rk
      ELSE
        LET tv1 == IF IsObject(key1) THEN Traversed(rk.tv, key1, key2)
                                     ELSE rk.tv
            value1 == EqualsGetter(h, structure1, getter, i)
            value2 == EqualsGetter(h, structure2, getter, i) IN
        \* traversedValues.has(key1), not has(value1)
        IF /\ IsObject(value1)
           /\ IsObject(key1)
           /\ IF value1.v \in DOMAIN tv1 THEN tv1[value1.v] # value2
                                         ELSE value2 # Undefined
          THEN [tv |-> tv1, res |-> "false"]
        ELSE
          LET rv == equalsValue(h, value1, value2, tv1, stack) IN
          IF rv.res # "true" THEN rv
          ELSE structureEquals(
                 h, structure1, structure2, keys1, keys2, getter,
                 IF IsObject(value1) THEN Traversed(rv.tv, value1, value2)
                                     ELSE rv.tv,
                 i - 1, stack)

\* structureEquals up to its loop
structureEqualsOf(h, structure1, structure2, keys1, keys2, getter, tv, stack) ==
  IF Len(keys1) # Len(keys2) THEN [tv |-> tv, res |-> "false"]
  ELSE structureEquals(h, structure1, structure2, keys1, keys2, getter,
                       Traversed(tv, structure1, structure2),
                       Len(keys1), stack)

objectEquals(h, object1, object2, tv, stack) ==
  IF object2.t \in {"null", "undefined"} THEN [tv |-> tv, res |-> "TypeError"]
  ELSE structureEqualsOf(h, object1, object2, ObjectKeys(h, object1),
                         ObjectKeys(h, object2), "own", tv, stack)

setEquals(h, set1, set2, tv, stack) ==
  IF set2.t \in {"null", "undefined"} THEN [tv |-> tv, res |-> "TypeError"]
  ELSE IF SizeOf(h, set1) # SizeOf(h, set2) THEN [tv |-> tv, res |-> "false"]
  ELSE structureEqualsOf(h, set1, set2, SetValues(h[set1.v]),
                         SetValues(h[set2.v]), "undefined", tv, stack)

arrayEquals(h, array1, array2, tv, stack) ==
  LET elements1 == Elements(h, h[array1.v])
      elements2 == Elements(h, h[array2.v]) IN
  IF Len(elements1) # Len(elements2) THEN [tv |-> tv, res |-> "false"]
  ELSE structureEqualsOf(h, array1, array2, Indexes(elements1),
                         Indexes(elements2), "own", tv, stack)

\* equals(value1, value2, traversedValues).  A call that finds itself on the
\* call stack with the same arguments and the same traversedValues recurses
\* without end: "RangeError", the call stack is exhausted.
equalsValue(h, value1, value2, tv, stack) ==
  IF ~IsObject(value1) THEN
    [tv |-> tv, res |-> IF value1 = value2 THEN "true" ELSE "false"]
  ELSE IF <<value1, value2, tv>> \in stack THEN
    [tv |-> tv, res |-> "RangeError"]
  ELSE
    LET kind1 == h[value1.v].kind
        kind2 == IF IsObject(value2) THEN h[value2.v].kind ELSE "none"
        deeper == stack \cup {<<value1, value2, tv>>}
        No == [tv |-> tv, res |-> "false"]
        If(test) == [tv |-> tv, res |-> IF test THEN "true" ELSE "false"] IN
    \* WRAPPED_TYPES
    CASE kind1 \in {"Boolean", "String", "Date"} ->
           If(kind2 = kind1 /\ h[value1.v].n = h[value2.v].n)
      [] kind1 = "Blob" -> If(kind2 = "Blob" /\ value1 = value2)
      \* the buffers are compared as two new Int16Array views
      [] kind1 = "ArrayBuffer" ->
           If(kind2 = "ArrayBuffer" /\ h[value1.v].vals = h[value2.v].vals)
      [] kind1 = "Int8Array" ->
           IF kind2 = "Int8Array"
             THEN arrayEquals(h, value1, value2, tv, deeper) ELSE No
      [] kind1 = "Array" ->
           IF kind2 = "Array"
             THEN arrayEquals(h, value1, value2, tv, deeper) ELSE No
      [] kind1 \in {"Map", "Set"} -> setEquals(h, value1, value2, tv, deeper)
      [] kind1 \in {"Object", "Number"} ->
           objectEquals(h, value1, value2, tv, deeper)

\* equals(value1, value2)
equalsGraph(h, value1, value2) == equalsValue(h, value1, value2, <<>>, {}).res

\* ---- the values the functions are applied to

\* The objects of a graph refer to at most MaxNodes objects, a structure has
\* at most MaxKeys keys.
MaxNodes == 2

MaxKeys == 2

Members == {Num(1), Num(2)} \cup {Ref(i) : i \in 1 .. MaxNodes}

\* The sequences of 0 .. n members
SeqsUpTo(S, n) == UNION {[1 .. k -> S] : k \in 0 .. n}

Distinct(seq) == \A i, j \in DOMAIN seq : seq[i] = seq[j] => i = j

PropertyNames == {<<>>, <<Str(1)>>, <<Str(1), Str(2)>>, <<Str(2), Str(1)>>}

Objects ==
  { [kind |-> "Object", keys |-> keys, vals |-> vals, n |-> 0] :
      <<keys, vals>> \in
        { p \in PropertyNames \X SeqsUpTo(Members, MaxKeys) :
            Len(p[1]) = Len(p[2]) } }

Arrays ==
  { [kind |-> "Array", keys |-> <<>>, vals |-> vals, n |-> 0] :
      vals \in SeqsUpTo(Members, 1) }

Sets ==
  { [kind |-> "Set", keys |-> keys,
     vals |-> [i \in DOMAIN keys |-> Undefined], n |-> 0] :
      keys \in {s \in SeqsUpTo(Members, MaxKeys) : Distinct(s)} }

\* Maps of two entries have primitive keys.
Maps ==
  { [kind |-> "Map", keys |-> keys, vals |-> vals, n |-> 0] :
      <<keys, vals>> \in
        { p \in SeqsUpTo(Members, MaxKeys) \X SeqsUpTo(Members, MaxKeys) :
            /\ Len(p[1]) = Len(p[2])
            /\ Distinct(p[1])
            /\ Len(p[1]) = 2 => \A i \in 1 .. 2 : ~IsObject(p[1][i]) } }

Dates == { [kind |-> "Date", keys |-> <<>>, vals |-> <<>>, n |-> t] : t \in 1 .. 2 }

\* new Boolean(b), new Number(n), new String(s)
Wrappers ==
  { [kind |-> kind, keys |-> <<>>, vals |-> <<>>, n |-> value] :
      kind \in {"Boolean", "Number", "String"}, value \in 1 .. 2 }

Blobs == { NewObject("Blob") }

\* new Int8Array(buffer), and the buffers of two bytes
TypedArray(buffer) ==
  [kind |-> "Int8Array", keys |-> <<>>, vals |-> <<>>, n |-> buffer]

Buffers ==
  { [kind |-> "ArrayBuffer", keys |-> <<>>, vals |-> <<Num(a), Num(b)>>, n |-> 0] :
      a, b \in 1 .. 2 }

\* Two objects that refer to themselves and to each other in every way.
PlainGraphs ==
  LET Nodes == Objects \cup Arrays \cup Sets \cup Maps \cup Dates
                 \cup Wrappers \cup Blobs IN
  [1 .. MaxNodes -> Nodes]

\* The structures that hold the object i, and nothing else.
Holders(i) ==
  { [kind |-> "Object", keys |-> <<Str(1)>>, vals |-> <<Ref(i)>>, n |-> 0],
    [kind |-> "Object", keys |-> <<Str(1), Str(2)>>,
     vals |-> <<Ref(i), Ref(i)>>, n |-> 0],
    [kind |-> "Array", keys |-> <<>>, vals |-> <<Ref(i)>>, n |-> 0],
    [kind |-> "Set", keys |-> <<Ref(i)>>, vals |-> <<Undefined>>, n |-> 0],
    [kind |-> "Map", keys |-> <<Num(1)>>, vals |-> <<Ref(i)>>, n |-> 0] }

\* A typed array on its buffer, held by a structure, with a second holder or
\* a second view of the buffer.
BufferGraphs ==
  { <<first, second, TypedArray(4), buffer>> :
      first \in Holders(3), second \in Holders(3) \cup {TypedArray(4)},
      buffer \in Buffers }

\* new Entity(...) is not among the values: an entity is cloned and compared
\* as the plain object of its fields.
InputGraphs == PlainGraphs \cup BufferGraphs

\* What clone() and equals() are called with.
Arguments(h) == {Num(1), Null} \cup {Ref(i) : i \in DOMAIN h}

MaxClones == 1

MaxCompares == 1

InitValues ==
  /\ RunnerParked
  /\ TxParked
  /\ ser = NoKeys
  /\ \E h \in InputGraphs : mem = [NoValues EXCEPT !.h = h]

\* clone(value)
CloneValue ==
  /\ Len(mem.cloned) < MaxClones
  /\ mem.out.op = "none"
  /\ \E value \in Arguments(mem.h) :
       LET s == cloneGraph(mem.h, value) IN
       mem' = [mem EXCEPT !.h = s.h,
                          !.cloned = Append(@, [source |-> value, clone |-> s.ret,
                                                before |-> mem.h])]
  /\ UNCHANGED <<runnerVars, txVars, ser>>

\* equals(value1, value2)
CompareValues ==
  /\ mem.out.op = "none"
  /\ \E value1, value2 \in Arguments(mem.h) :
       mem' = [mem EXCEPT !.out = [op |-> "equals", value1 |-> value1,
                                   value2 |-> value2,
                                   res |-> equalsGraph(mem.h, value1, value2)]]
  /\ UNCHANGED <<runnerVars, txVars, ser>>

NextValues ==
  \/ CloneValue
  \/ CompareValues

SpecValues == InitValues /\ [][NextValues]_vars

\* ---------------------------------------------------- primary keys

\* An IndexedDB key: a number, a string (its characters), a date (its
\* time), or an array of keys.
NumberKey(n) == [t |-> "number", n |-> n]

StringKey(chars) == [t |-> "string", chars |-> chars]

DateKey(time) == [t |-> "Date", time |-> time]

ArrayKey(parts) == [t |-> "Array", parts |-> parts]

\* Strings are sequences of characters.  The decimal digits of a number
\* below 10.
Digits(n) == <<ToString(n)>>

RECURSIVE Flatten(_)
Flatten(seqs) == IF seqs = <<>> THEN <<>> ELSE Head(seqs) \o Flatten(Tail(seqs))

\* JSON.stringify(string): quotes around the characters, the quote and the
\* backslash escaped.
Quoted(chars) ==
  LET Escaped(c) == IF c \in {"\"", "\\"} THEN <<"\\", c>> ELSE <<c>> IN
  <<"\"">> \o Flatten([i \in DOMAIN chars |-> Escaped(chars[i])]) \o <<"\"">>

RECURSIVE Join(_)
\* array.join(",")
Join(strings) ==
  IF strings = <<>> THEN <<>>
  ELSE IF Len(strings) = 1 THEN strings[1]
  ELSE strings[1] \o <<",">> \o Join(Tail(strings))

RECURSIVE serializeKeyOf(_)
\* serializeKey(key) over all the kinds of key
serializeKeyOf(key) ==
  CASE key.t = "number" -> Digits(key.n)
    [] key.t = "string" -> Quoted(key.chars)
    [] key.t = "Date" ->
         <<"D", "a", "t", "e", "(">> \o Digits(key.time) \o <<")">>
    [] key.t = "Array" ->
         Join([i \in DOMAIN key.parts |-> serializeKeyOf(key.parts[i])])

\* An array key has at most MaxParts parts, arrays are nested MaxNesting deep.
MaxParts == 2

MaxNesting == 2

AtomicKeys ==
  {NumberKey(n) : n \in 1 .. 2}
    \cup {StringKey(chars) : chars \in {<<"a">>, <<",">>}}
    \cup {DateKey(1)}

RECURSIVE KeysNested(_)
KeysNested(depth) ==
  IF depth = 0 THEN AtomicKeys
  ELSE LET parts == KeysNested(depth - 1) IN
       AtomicKeys
         \cup { ArrayKey(seq) :
                  seq \in UNION {[1 .. k -> parts] : k \in 1 .. MaxParts} }

SupportedKeys == KeysNested(MaxNesting)

\* The primary keys of two entities.
InitKeys ==
  /\ RunnerParked
  /\ TxParked
  /\ mem = NoValues
  /\ \E key1, key2 \in SupportedKeys :
       ser = [key1 |-> key1, key2 |-> key2, out |-> <<>>]

\* serializeKey(key1), serializeKey(key2)
SerializeKeys ==
  /\ ser.out = <<>>
  /\ ser' = [ser EXCEPT !.out = <<serializeKeyOf(ser.key1),
                                  serializeKeyOf(ser.key2)>>]
  /\ UNCHANGED <<runnerVars, txVars, mem>>

NextKeys == SerializeKeys

SpecKeys == InitKeys /\ [][NextKeys]_vars

\* ------------------------------------------------- the runner's properties

QueuedIds == { runner.queuedOperations[i].id : i \in DOMAIN runner.queuedOperations }

ExecutedIds == Range(log.executed)

\* The position of x in a sequence that holds it.
Pos(s, x) == CHOOSE i \in DOMAIN s : s[i] = x

\* C6: the runner's flags are one-shot: active and aborted are never both
\* true, active never goes from false back to true, and aborted never goes
\* from true back to false.
C6_FlagsOneShot ==
  [][ /\ ~(runner.active /\ runner.aborted)
      /\ ~(runner'.active /\ runner'.aborted)
      /\ (~runner.active => ~runner'.active)
      /\ (runner.aborted => runner'.aborted) ]_vars

\* An aborted runner on which commit() was then tried.
C6_Witness ==
  /\ runner.aborted
  /\ ~runner.active
  /\ log.call = <<"commit", TRUE>>

\* C7: once a commit() or abort() has been accepted (the runner's own abort
\* included), every later queueOperation(), commit() and abort() throws, the
\* refused operation is neither queued nor ever invoked, the flags stay as
\* they are, and no second commit or abort is accepted.
C7_EndIsFinal ==
  /\ [](/\ log.finishes <= 1
        /\ log.refused \cap (QueuedIds \cup ExecutedIds) = {})
  /\ [][ log.finishes >= 1 =>
           /\ runner'.active = runner.active
           /\ runner'.aborted = runner.aborted
           /\ log'.accepted = log.accepted
           /\ log'.finishes = log.finishes
           /\ (log'.call # log.call => log'.call[2]) ]_vars

\* The runner aborted itself for idleness and then refused an operation.
C7_Witness ==
  /\ runner.idleAbort
  /\ log.refused # {}
  /\ log.call = <<"queueOperation", TRUE>>

\* C8: every operation queueOperation() accepted is invoked at most once,
\* and when the transaction completes after commit() each of them has been
\* invoked exactly once.
C8_AcceptedAllExecuted ==
  /\ \A id \in Range(log.accepted) : Count(log.executed, id) <= 1
  /\ (log.committing /\ idbTx.state = "complete") =>
       \A id \in Range(log.accepted) : Count(log.executed, id) = 1

\* C9: operations are invoked in the order queueOperation() accepted them,
\* across all drains.
C9_QueueOrder ==
  /\ ExecutedIds \subseteq Range(log.accepted)
  /\ \A i, j \in DOMAIN log.executed :
       i < j => Pos(log.accepted, log.executed[i])
                  < Pos(log.accepted, log.executed[j])

\* Three operations invoked, one of them queued by another during a drain.
C9_Witness ==
  /\ Len(log.executed) >= 3
  /\ \E i \in DOMAIN log.executed : log.executed[i] > MaxOps

\* C10: an operation that is in the queue when abort() is called is never
\* invoked afterwards.
C10_AbortDropsQueue ==
  log.atAbort \cap ExecutedIds = {}

\* abort() found operations queued, and the probe's callback ran after it.
C10_Witness ==
  /\ log.atAbort # {}
  /\ runner.abortPromise = "rejected"
  /\ idbTx.requests = <<>>

\* The probe reads among the requests of the runner's transaction.
Probes(t) == Count(t.requests, "probe")

\* C12: after commit() on an active runner the callback of the outstanding
\* probe drains the queue, no further probe read is placed, and unless the
\* database aborts the transaction it completes: the promise of commit()
\* (the transaction's completionPromise) resolves.
C12_CommitTerminates ==
  /\ [][ log.committing =>
           /\ Probes(idbTx') <= Probes(idbTx)
           /\ (/\ idbTx.state = "active"
               /\ idbTx'.state = "active"
               /\ Probes(idbTx) > 0
               /\ Head(idbTx.requests) = "probe"
               /\ idbTx'.requests # idbTx.requests)
                 => /\ runner'.queuedOperations = <<>>
                    /\ Probes(idbTx') = 0 ]_vars
  /\ (log.committing ~> idbTx.state \in {"complete", "aborted"})

\* commit() was called with operations queued, they ran in the final drain
\* and the transaction completed.
C12_Witness ==
  /\ log.committing
  /\ idbTx.state = "complete"
  /\ log.call = <<"commit", FALSE>>
  /\ Len(log.executed) >= 2

\* C13: the runner aborts itself only when its queue has been empty for
\* longer than ttl, and the observer is called with aborted = true exactly
\* once for a runner that aborted itself, and never otherwise.
C13_IdleAbortOnce ==
  /\ [](Count(log.notices, TRUE) = IF runner.idleAbort THEN 1 ELSE 0)
  /\ [][ (~runner.idleAbort /\ runner'.idleAbort) =>
           /\ runner.idleSince # NULL
           /\ now - runner.idleSince > runner.options.ttl
           /\ runner.queuedOperations = <<>>
           /\ ~runner.aborted
           /\ runner'.aborted ]_vars

\* The observer is called with aborted = false in this step.
Warned == log'.notices = Append(log.notices, FALSE)

\* The runner's queue is empty and has been seen empty for longer than
\* warningDelay and no longer than ttl.
IdleForWarning ==
  /\ runner.idleSince # NULL
  /\ runner.queuedOperations = <<>>
  /\ now - runner.idleSince > runner.options.warningDelay
  /\ now - runner.idleSince <= runner.options.ttl

\* C14: the observer is called with aborted = false only for a runner idle
\* for longer than warningDelay and no longer than ttl, and the call aborts
\* nothing: the transaction stays as it was and, unless the database had
\* already aborted it, so does the runner; after a warning the next one
\* comes only after another operation was queued; and the keep-alive that
\* finds the runner idle that long, not yet warned, does warn.
C14_WarningOncePerIdlePeriod ==
  [][ /\ Warned =>
           /\ IdleForWarning
           /\ idbTx'.state = idbTx.state
           /\ idbTx.state = "active" =>
                 (~runner'.aborted /\ runner'.active = runner.active)
           /\ log.warnedAt < Len(log.accepted)
      /\ (/\ IdleForWarning
          /\ log.warnedAt < Len(log.accepted)
          /\ runner.active
          /\ idbTx.state = "active"
          /\ Head(idbTx.requests) = "probe"
          /\ idbTx'.requests # idbTx.requests
          /\ idbTx'.state = "active") => Warned ]_vars

\* Two warnings, with an operation queued after the first.
C14_Witness ==
  /\ Count(log.notices, FALSE) = 2
  /\ ~runner.aborted
  /\ Len(log.accepted) >= 1

\* C15: a runner whose warningDelay is not below its ttl never calls the
\* observer with aborted = false; what its observer hears is the idle abort.
C15_NoWarningWhenDelayNotBelowTtl ==
  runner.options.warningDelay >= runner.options.ttl =>
    /\ Count(log.notices, FALSE) = 0
    /\ log.notices # <<>> => runner.idleAbort

\* The runner with warningDelay = ttl has aborted for idleness.
C15_Witness ==
  /\ runner.options.warningDelay = runner.options.ttl
  /\ runner.idleAbort
  /\ Count(log.notices, TRUE) >= 1

\* What the promises abort() returned on the Transaction rejected with.
T_abortErrors ==
  (IF txn.abortPromise = "rejected" THEN {hist.abortError} ELSE {})
    \cup (IF hist.retryError # "none" THEN {hist.retryError} ELSE {})

\* C11: a promise abort() returned never resolves, on the runner and on the
\* Transaction: it rejects with the transaction's AbortError, or with a
\* distinct Error if the transaction had completed.
C11_AbortNeverResolves ==
  /\ runner.abortPromise # "resolved"
  /\ runner.abortPromise = "rejected" =>
       log.abortError = IF idbTx.state = "complete" THEN "Error"
                                                    ELSE "AbortError"
  /\ txn.abortPromise # "resolved"
  /\ T_abortErrors \subseteq
       (IF db.state = "complete" THEN {"Error"} ELSE {"AbortError"})

\* ------------------------------------------- the Transaction's properties

\* A public method of the Transaction or the entity manager is called in
\* this step.
CallOf(names) ==
  /\ hist'.calls = hist.calls + 1
  /\ hist'.call[1] \in names

\* Two objects with the same fields and the same value in each.
SameFields(object1, object2) == Range(object1) = Range(object2)

\* C1: once commit() or abort() has been called on a Transaction, every
\* later commit(), persist(), remove(), updateQuery() or deleteQuery() on it
\* throws, and queues and requests nothing.
C1_EndedTransactionRefuses ==
  [][ (hist.ended /\ CallOf({"commit", "persist", "remove", "updateQuery",
                             "deleteQuery"}))
        => /\ hist'.call[2]
           /\ txn'.pendingOperations = txn.pendingOperations
           /\ txn'.timers = txn.timers
           /\ db'.requests = db.requests ]_vars

\* C2: when the promise of abort() rejects, every entity of the persistence
\* context has exactly the fields and the values of its snapshot.
C2_AbortRestoresSnapshots ==
  [][ (txn.abortPromise = "pending" /\ txn'.abortPromise = "rejected")
        => \A i \in DOMAIN em.entities :
             SameFields(heap'[em.entities[i][2].entity],
                        em.entities[i][2].data) ]_vars

\* C3: the store a reader outside the transaction sees changes only in the
\* step in which commit() succeeds, and never through a transaction that was
\* aborted.
C3_WritesInvisibleUntilCommit ==
  [][ storage' # storage
        => /\ txn.commitPromise = "pending"
           /\ txn'.commitPromise = "resolved"
           /\ ~txn.aborted ]_vars

\* A transaction that wrote and was aborted: the store is as it was.
C3_Witness ==
  /\ txn.abortPromise = "rejected"
  /\ db.state = "aborted"
  /\ db.view # storage

DirtyAtCommit ==
  { c.entity : c \in { c \in hist.atCommit : ~equals(c.live, c.data) } }

TransactionEnded ==
  \/ txn.commitPromise \in {"resolved", "rejected"}
  \/ txn.abortPromise = "rejected"

\* C5: startTransaction() throws exactly when the transaction started before
\* has not ended yet.
C5_OneOpenTransaction ==
  [][ CallOf({"startTransaction"})
        => (hist'.call[2] <=> (txn.exists /\ ~TransactionEnded)) ]_vars

\* C16: the completion callback of a transaction that has ended has run
\* exactly once, and of no transaction more than once; it runs in no call of
\* the application (commit() and abort() included) nor in a retry of one, but
\* when the transaction has completed after commit() or was aborted after
\* abort(), with the promise of that call still pending.
C16_CompletionCallbackOnce ==
  /\ [](/\ Len(hist.completions) <= 1
        /\ TransactionEnded => Len(hist.completions) = 1
        /\ \A i \in DOMAIN hist.completions :
             LET c == hist.completions[i] IN
             \/ c.handle = "complete" /\ c.commit = "pending"
             \/ c.handle = "aborted" /\ c.abort = "pending")
  /\ [][ Len(hist'.completions) > Len(hist.completions)
          => /\ hist'.calls = hist.calls
             /\ txn'.timers = txn.timers ]_vars

\* A promise of the named operation settles in this step.
Settles(op) == hist'.settles > hist.settles /\ hist'.settle.op = op

\* The context entries other than the keys' are the same before and after.
OtherEntriesKept(keys) ==
  LET Others(e) == {e.entities[i] : i \in {j \in DOMAIN e.entities :
                       \A k \in keys : e.entities[j][1] # serializeKey(k)}}
  IN Others(em') = Others(em)

\* C17: the promise of persist(e) resolves to e itself, whose primary key is
\* the generated one, and as long as the transaction has not completed the
\* persistence context holds e under that key.
C17_PersistedIsManaged ==
  \A p \in hist.persisted :
    /\ p.value = p.given
    /\ HasField(heap[p.value], KeyPath)
    /\ getPrimaryKey(heap[p.value]) = p.key
    /\ db.state = "active" =>
         /\ ContextHas(em, serializeKey(p.key))
         /\ ContextGet(em, serializeKey(p.key)).entity = p.value

\* C18: in the step the promise of remove(type, key) resolves, the
\* persistence context has no entry for the key and its other entries are
\* what they were.
C18_RemovedIsDetached ==
  [][ Settles("remove") =>
        /\ hist'.settle.outcome = "resolved"
        /\ ~ContextHas(em', serializeKey(hist'.settle.key))
        /\ OtherEntriesKept({hist'.settle.key}) ]_vars

\* C19: the promise of deleteQuery() resolves, to the number of the records
\* the query deleted; then none of their keys is in the persistence context
\* and the context's other entries are what they were.
C19_DeleteQueryCountsAndDetaches ==
  [][ Settles("deleteQuery") =>
        /\ hist'.settle.outcome = "resolved"
        /\ hist'.settle.value =
              [type |-> "number", value |-> Cardinality(hist'.deleted)]
        /\ \A k \in hist'.deleted : ~ContextHas(em', serializeKey(k))
        /\ OtherEntriesKept(hist'.deleted) ]_vars

\* C20: the promise of an update query resolves to the number of records
\* matched; the entity callback has run once for each of them, on the entity
\* already managed under the record's key when there was one (no entity is
\* created then), and else on a new entity that is managed from then on.
C20_UpdateQueryManagesOnce ==
  [][ Settles("updateQuery") =>
        LET matched == Matched(db.view.records, NULL)
            applied == hist'.applied
            fresh   == {k \in matched : ~ContextHas(em, serializeKey(k))} IN
        /\ hist'.settle.outcome = "resolved"
        /\ hist'.settle.value =
              [type |-> "number", value |-> Cardinality(matched)]
        /\ Len(applied) = Cardinality(matched)
        /\ {applied[i].key : i \in DOMAIN applied} = matched
        /\ Len(heap') = Len(heap) + Cardinality(fresh)
        /\ \A i \in DOMAIN applied :
             LET skey == serializeKey(applied[i].key) IN
             /\ ContextHas(em', skey)
             /\ ContextGet(em', skey).entity = applied[i].entity
             /\ IF applied[i].key \in fresh
                  THEN applied[i].entity > Len(heap)
                  ELSE applied[i].entity = ContextGet(em, skey).entity ]_vars

\* An update query has run its callback on the entities an earlier one left
\* managed.
C20_Witness ==
  /\ hist.settle.op = "updateQuery"
  /\ Len(hist.applied) >= 2
  /\ \A i \in DOMAIN hist.applied : hist.applied[i].managed

\* C21: the function updateQuery() returned, called once the transaction is
\* no longer active, throws and queues and requests nothing, and no update
\* query called that late is ever run.
C21_LateUpdateQueryRefused ==
  /\ [][ (~txn.active /\ CallOf({"updateQueryRun"}))
          => /\ hist'.call[2]
             /\ txn'.pendingOperations = txn.pendingOperations
             /\ db'.requests = db.requests ]_vars
  /\ [](hist.settle.op = "updateQuery" => ~hist.settle.late)

\* C22: the entities find() and query() have resolved to in one transaction
\* are one object per primary key.
C22_OneObjectPerKey ==
  \A f, g \in hist.found : g.key = f.key => g.entity = f.entity

\* C23: while the entity manager has no transaction open its persistence
\* context is empty.
C23_NoTransactionNoContext ==
  ~em.activeTransaction => em.entities = <<>>

\* C24: when the callback of runTransaction() resolves and the database does
\* not fail the transaction, the transaction is committed and the returned
\* promise resolves to the callback's result; when the callback throws or
\* rejects, the transaction is aborted, the returned promise never resolves
\* and it rejects with the callback's own error.
C24_RunTransactionOutcome ==
  /\ (hist.fn = "resolved" /\ hist.runOutcome[1] = "resolved")
       => hist.runOutcome[2] = "result" /\ db.state = "complete"
  /\ (hist.fn = "resolved" /\ hist.runOutcome[1] = "rejected")
       => hist.failed
  /\ hist.fn = "failed" => hist.runOutcome[1] # "resolved"
  /\ (hist.fn = "failed" /\ hist.runOutcome[1] = "rejected")
       => /\ txn.aborted
          /\ db.state # "complete"
          /\ hist.runOutcome[2] = "fn error"

\* C25: when a commit has succeeded, every entity that merge() entered into
\* the persistence context during the transaction, and that the context still
\* held at commit(), has been put into the store by the commit.
C25_MergedIsWrittenOnCommit ==
  txn.commitPromise = "resolved"
    => \A c \in hist.atCommit :
         c.entity \in hist.merged
           => c.entity \in hist.puts

\* ----------------------------------------------- the properties of values

\* equals(v, clone(v)) has been called.
ComparedWithClone ==
  /\ mem.out.op = "equals"
  /\ \E c \in 1 .. Len(mem.cloned) :
       /\ mem.out.value1 = mem.cloned[c].source
       /\ mem.out.value2 = mem.cloned[c].clone

\* C26: a value compared with the clone made of it: equals() returns true.
C26_CloneEqualsOriginal ==
  ComparedWithClone => mem.out.res = "true"

\* The objects an object refers to: its keys, its values, and the buffer of
\* a typed array.
ChildrenOf(h, i) ==
  { x.v : x \in { y \in {h[i].keys[k] : k \in DOMAIN h[i].keys}
                         \cup {h[i].vals[k] : k \in DOMAIN h[i].vals} :
                    IsObject(y) } }
    \cup (IF h[i].kind = "Int8Array" THEN {h[i].n} ELSE {})

RECURSIVE ReachFrom(_, _)
\* The objects that can be reached from the objects S.
ReachFrom(h, S) ==
  LET T == S \cup UNION { ChildrenOf(h, i) : i \in S } IN
  IF T = S THEN S ELSE ReachFrom(h, T)

\* The objects of a value's graph.
GraphOf(h, value) == IF IsObject(value) THEN ReachFrom(h, {value.v}) ELSE {}

\* C27: after clone(v), every object that both v and the clone reach is of
\* an opaque immutable kind; the buffer of a typed array is an object.
C27_CloneSharesNothingMutable ==
  \A c \in 1 .. Len(mem.cloned) :
    \A i \in GraphOf(mem.h, mem.cloned[c].source)
              \cap GraphOf(mem.h, mem.cloned[c].clone) :
      mem.h[i].kind = "Blob"

\* A value's graph has a cycle.
Cyclic(h, value) ==
  \E i \in GraphOf(h, value) : i \in ReachFrom(h, ChildrenOf(h, i))

\* The graph consists of records and arrays.
RecordsAndArrays(h, value) ==
  \A i \in GraphOf(h, value) : h[i].kind \in {"Object", "Array"}

\* The object i paired with the object f[i] everywhere: the same class, the
\* same keys in the same order, equal primitive values, and each reference
\* paired with the partner of its target.
PairedBy(h, f) ==
  \A i \in DOMAIN f :
    LET n1 == h[i]
        n2 == h[f[i]] IN
    /\ n1.kind = n2.kind
    /\ n1.keys = n2.keys
    /\ Len(n1.vals) = Len(n2.vals)
    /\ \A k \in DOMAIN n1.vals :
         IF IsObject(n1.vals[k])
           THEN IsObject(n2.vals[k]) /\ n2.vals[k].v = f[n1.vals[k].v]
           ELSE n2.vals[k] = n1.vals[k]

Pairings(h, value1, value2) ==
  { f \in [GraphOf(h, value1) -> GraphOf(h, value2)] :
      f[value1.v] = value2.v /\ PairedBy(h, f) }

\* The same shape and the same cycle topology: a one-to-one pairing exists.
SameTopology(h, value1, value2) ==
  \E f \in Pairings(h, value1, value2) :
    \A i, j \in DOMAIN f : f[i] = f[j] => i = j

\* equals() was called with two graphs of records and arrays, one of them
\* with a cycle.
ComparedCyclic ==
  /\ mem.out.op = "equals"
  /\ IsObject(mem.out.value1) /\ IsObject(mem.out.value2)
  /\ RecordsAndArrays(mem.h, mem.out.value1)
  /\ RecordsAndArrays(mem.h, mem.out.value2)
  /\ Cyclic(mem.h, mem.out.value1) \/ Cyclic(mem.h, mem.out.value2)

\* C28: equals() of graphs with cycles returns, true for graphs of the same
\* shape and cycle topology, false when no pairing of the objects exists.
C28_CyclicEqualsByTopology ==
  ComparedCyclic
    => /\ mem.out.res \in {"true", "false"}
       /\ SameTopology(mem.h, mem.out.value1, mem.out.value2)
            => mem.out.res = "true"
       /\ Pairings(mem.h, mem.out.value1, mem.out.value2) = {}
            => mem.out.res = "false"

\* C29: equals(a, b) gives what equals(b, a) gives, whatever the kinds of a
\* and b.
C29_EqualsSymmetric ==
  mem.out.op = "equals"
    => mem.out.res = equalsGraph(mem.h, mem.out.value2, mem.out.value1)

\* The entries of a set or a map of primitives: the members, the pairs of
\* key and value.
Primitives(seq) == \A i \in DOMAIN seq : ~IsObject(seq[i])

EntriesOf(node) == { <<node.keys[i], node.vals[i]>> : i \in DOMAIN node.keys }

\* equals() was called with two sets, or two maps, of primitives.
ComparedCollections ==
  /\ mem.out.op = "equals"
  /\ IsObject(mem.out.value1) /\ IsObject(mem.out.value2)
  /\ LET n1 == mem.h[mem.out.value1.v]
         n2 == mem.h[mem.out.value2.v] IN
     /\ n1.kind \in {"Map", "Set"}
     /\ n2.kind = n1.kind
     /\ Primitives(n1.keys \o n1.vals \o n2.keys \o n2.vals)

\* C30: two sets are equal exactly if they have the same members, two maps
\* exactly if they pair the same keys with the same values, in whatever
\* order the entries were inserted.
C30_CollectionsIgnoreOrder ==
  ComparedCollections
    => (mem.out.res = "true"
          <=> EntriesOf(mem.h[mem.out.value1.v])
                = EntriesOf(mem.h[mem.out.value2.v]))

\* equals() was called with two Boolean, two Number or two String objects,
\* or two dates.
ComparedWrappers ==
  /\ mem.out.op = "equals"
  /\ IsObject(mem.out.value1) /\ IsObject(mem.out.value2)
  /\ mem.h[mem.out.value1.v].kind \in {"Boolean", "Number", "String", "Date"}
  /\ mem.h[mem.out.value2.v].kind = mem.h[mem.out.value1.v].kind

\* C31: two wrappers of one kind, and two dates, are equal exactly if their
\* values are equal.
C31_WrappersByValue ==
  ComparedWrappers
    => (mem.out.res = "true"
          <=> mem.h[mem.out.value1.v].n = mem.h[mem.out.value2.v].n)

\* C32: two keys with the same serialization are the same key.
C32_SerializeKeyInjective ==
  (ser.out # <<>> /\ ser.out[1] = ser.out[2]) => ser.key1 = ser.key2


\* --------------------------------------------- commit, probes and drains

\* This step is a commit() call the runner accepted.
CommitAccepted == ~log.committing /\ log'.committing

\* This step runs the callback of a probe read that succeeded or failed.
ProbeCallback ==
  /\ Probes(idbTx) > 0
  /\ Head(idbTx.requests) = "probe"
  /\ idbTx'.requests # idbTx.requests

C34_OneProbeOutstanding ==
  /\ Probes(idbTx) <= 1
  /\ (runner.active /\ idbTx.state = "active") => Probes(idbTx) = 1


\* C35: when a keep-alive probe read fails on a runner that has not been
\* aborted, the runner is aborted when the failure has been handled:
\* aborted is set, active is cleared and the transaction is aborted; this
\* holds for a runner that is still active and for one on which commit()
\* has been called.
C35_ProbeFailureAborts ==
  [][ (~log.probeFailed /\ log'.probeFailed /\ ~runner.aborted) =>
        /\ runner'.aborted
        /\ ~runner'.active
        /\ idbTx'.state = "aborted" ]_vars


\* The ids of the operations in a queue, in queue order.
IdsOf(operations) == [i \in DOMAIN operations |-> operations[i].id]

\* C36: a drain invokes exactly the operations that were in the queue when
\* it began, in queue order; an operation queued by one of them during the
\* drain is not invoked in it and is in the queue when the drain is over.
C36_DrainRunsSnapshot ==
  [][ log'.executed # log.executed =>
        /\ log'.executed = log.executed \o IdsOf(runner.queuedOperations)
        /\ \A id \in Range(log'.accepted) \ Range(log.accepted) :
             /\ id \notin Range(log'.executed)
             /\ id \in Range(IdsOf(runner'.queuedOperations)) ]_vars


\* C37: an aborted runner, aborted by abort() or by its idle check, issues
\* no keep-alive probe and invokes no operation: from the step that aborts
\* it on, no probe read is added to the transaction's requests, a probe
\* callback leaves none behind, and nothing is invoked.
C37_AbortedRunnerStops ==
  [][ runner'.aborted =>
        /\ Probes(idbTx') <= Probes(idbTx)
        /\ ProbeCallback => Probes(idbTx') = 0
        /\ (runner.aborted => log'.executed = log.executed) ]_vars

\* The idle check aborted a runner that had run an operation, and the
\* callback of its last probe has run.
C37_Witness ==
  /\ runner.idleAbort
  /\ runner.aborted
  /\ Len(log.executed) >= 1
  /\ idbTx.requests = <<>>


\* C40: when a drain has run and the runner is not aborted, every operation
\* of the batch has been invoked or is still in the queue, also when one of
\* them threw.
C40_BatchSurvivesThrow ==
  [][ (log'.executed # log.executed /\ ~runner'.aborted) =>
        QueuedIds \subseteq
          Range(log'.executed) \cup Range(IdsOf(runner'.queuedOperations)) ]_vars


\* ------------------------------------------------ the end of a transaction

\* The operations of the application whose promise has not settled: those
\* still queued on the transaction and those whose request is in flight
\* (commit()'s own put() and the probe read are not the application's, and
\* an update query run after the end was not issued in the transaction).
Waiting ==
  { op \in Range(txn.pendingOperations) \cup Range(db.requests) :
      /\ op.kind \notin {"put", "probe"}
      /\ (op.kind = "update" => ~op.late) }

\* C38: once a transaction has been committed or aborted, every promise of
\* an operation issued in it settles: no operation of the application stays
\* queued or in flight for ever.
C38_OperationsSettle ==
  (txn.exists /\ ~txn.active /\ db.state \in {"complete", "aborted"})
    ~> (Waiting = {})


\* C39: however a transaction ends, the entity manager is left with no open
\* transaction in the end, so that startTransaction() succeeds again: once
\* commit() or abort() has been accepted and the IndexedDB transaction has
\* finished, activeTransaction is eventually cleared.
C39_ManagerReturnsToIdle ==
  (txn.exists /\ ~txn.active /\ db.state \in {"complete", "aborted"})
    ~> ~em.activeTransaction

============================================================================
